---- MODULE Spec2Model ----
(***************************************************************************)
(* Verification model of the autonomous security-assessment pipeline:      *)
(* the learning engine (ReinforcementLearning), the attack simulator       *)
(* (AttackSimulationEngine), the signal correlator (SignalCorrelator) and  *)
(* the CLI `run` command that sequences them.                              *)
(*                                                                         *)
(* Numbers.  successRate is a JavaScript double; the model keeps it as an  *)
(* exact decimal, an integer count of 1/RateScale.  Rewards are kept in    *)
(* tenths (1.5 is 15, -0.2 is -2).                                          *)
(***************************************************************************)
EXTENDS Integers, Sequences, FiniteSets, TLC

VARIABLES
    modelWeights,     \* ReinforcementLearning.modelWeights: vector id -> ModelWeight
    learningHistory,  \* ReinforcementLearning.learningHistory (in memory)
    historyFile,      \* data/learning-history.json on disk
    calls,            \* the learn() invocations in flight, by caller
    processed,        \* number of attack results handed to learn() so far
    lastSave,         \* outcome of the last saveLearningHistory: "none", "ok", "failed"
    prevEngine,       \* memory of the engine of the previous process at its exit
    attackHistory,    \* AttackSimulationEngine.attackHistory
    runs,             \* the runAttacks() invocations in flight, by caller
    pipe,             \* the CLI `run` action: position, options, stage outputs
    frame,            \* the frame of a correlate() call: position and locals
    arg,              \* arguments of the function under evaluation
    ret               \* its return value: <<>> before the call, <<value>> after

learnVars == <<modelWeights, learningHistory, historyFile, calls, processed,
               lastSave, prevEngine>>

fnVars == <<frame, arg, ret>>

attackVars == <<attackHistory, runs>>

vars == <<learnVars, attackVars, fnVars, pipe>>

-----------------------------------------------------------------------------
(* Bounds of the model *)

\* total number of attack results passed to learn() in one behaviour
MaxTotal == 3
\* number of attack results in one learn() call
MaxResults == 2
\* number of vulnerabilities in a scan result handed to correlate()
MaxVulns == 2
\* number of events in a list handed to eliminateFalsePositives()
MaxEvents == 2
\* longest history file found on disk when the first engine is constructed
MaxPrior == 12

-----------------------------------------------------------------------------
(* Helpers *)

NULL == "null"

Max(a, b) == IF a >= b THEN a ELSE b
Min(a, b) == IF a <= b THEN a ELSE b

RECURSIVE Pow10(_)
Pow10(n) == IF n = 0 THEN 1 ELSE 10 * Pow10(n - 1)

\* successRate 1.0; two decimals of the seed table plus one per EMA step
RateScale == Pow10(2 + MaxTotal)
\* the decimal d/100 as a rate
Pct(d) == d * (RateScale \div 100)

RECURSIVE SeqOfN(_, _)
SeqOfN(x, n) == IF n = 0 THEN <<>> ELSE <<x>> \o SeqOfN(x, n - 1)

-----------------------------------------------------------------------------
(* AttackSimulationEngine: the catalog *)

\* String.prototype.includes
Includes(s, p) ==
    \E i \in 1..(Len(s) - Len(p) + 1) : SubSeq(s, i, i + Len(p) - 1) = p

attackVectors ==
    << [id |-> "owasp-1",   name |-> "SQL Injection",              severity |-> "critical"],
       [id |-> "owasp-2",   name |-> "Cross-Site Scripting (XSS)", severity |-> "high"],
       [id |-> "owasp-3",   name |-> "Broken Authentication",      severity |-> "high"],
       [id |-> "owasp-4",   name |-> "IDOR",                       severity |-> "medium"],
       [id |-> "network-1", name |-> "SSH Brute Force",            severity |-> "high"],
       [id |-> "network-2", name |-> "Port Exploitation",          severity |-> "critical"],
       [id |-> "network-3", name |-> "Lateral Movement",           severity |-> "critical"],
       [id |-> "priv-1",    name |-> "Privilege Escalation",       severity |-> "critical"] >>

\* the AttackResult fields that learn() and correlate() read
AttackResult(vector, success) ==
    [vectorId |-> vector.id, vectorName |-> vector.name,
     severity |-> vector.severity, success |-> success]

-----------------------------------------------------------------------------
(* ReinforcementLearning *)

Weight(rate, attempts) ==
    [successRate |-> rate, attempts |-> attempts, lastSuccess |-> NULL]

initializeModelWeights ==
    [id \in {"owasp-1", "owasp-2", "owasp-3", "owasp-4",
             "network-1", "network-2", "network-3", "priv-1"} |->
        CASE id = "owasp-1"   -> Weight(Pct(65), 20)
          [] id = "owasp-2"   -> Weight(Pct(55), 18)
          [] id = "owasp-3"   -> Weight(Pct(45), 15)
          [] id = "owasp-4"   -> Weight(Pct(40), 12)
          [] id = "network-1" -> Weight(Pct(35), 10)
          [] id = "network-2" -> Weight(Pct(50), 8)
          [] id = "network-3" -> Weight(Pct(30), 5)
          [] id = "priv-1"    -> Weight(Pct(25), 3)]

\* the file on disk: absent, unreadable/unparsable, or a JSON array of records
FileMissing == [state |-> "missing", data |-> <<>>]
FileCorrupt == [state |-> "corrupt", data |-> <<>>]
FileOf(history) == [state |-> "ok", data |-> history]

\* a loadLearningHistory without its try block: a file that cannot be read or
\* parsed makes the constructor throw
constructorThrowsOnCorrupt(file) == file.state = "corrupt"

\* the constructor throws: never, loadLearningHistory catches every error of the
\* file system and of JSON.parse (lines 35, 46-49)
constructorThrows(file) == FALSE

\* loadLearningHistory: the history the constructor ends up with
loadLearningHistory(file) ==
    IF file.state = "ok" THEN file.data ELSE <<>>

\* the new Date().toISOString() of a success
Timestamp == "ts"

\* calculateReward, lines 153-156: failed records of the vector in the history
previousFailures(attackResult, history) ==
    Cardinality({i \in DOMAIN history :
                    history[i].vectorId = attackResult.vectorId /\ ~history[i].success})

\* calculateReward without the final clamp
calculateRewardUnclamped(attackResult, correlationResults, history) ==
    LET base == IF attackResult.success THEN 10 ELSE -2
        bonus == IF attackResult.severity = "critical" /\ attackResult.success
                 THEN 5 ELSE 0
        correlatedEvent ==
            /\ correlationResults.defined
            /\ \E i \in DOMAIN correlationResults.findings :
                  correlationResults.findings[i].name = attackResult.vectorName
        corr == IF correlatedEvent THEN 3 ELSE 0
        pf == previousFailures(attackResult, history)
        penalty == IF pf > 3 THEN pf - 3 ELSE 0
    IN  base + bonus + corr - penalty

\* calculateReward, in tenths
calculateReward(attackResult, correlationResults, history) ==
    LET base == IF attackResult.success THEN 10 ELSE -2
        bonus == IF attackResult.severity = "critical" /\ attackResult.success
                 THEN 5 ELSE 0
        correlatedEvent ==
            /\ correlationResults.defined
            /\ \E i \in DOMAIN correlationResults.findings :
                  correlationResults.findings[i].name = attackResult.vectorName
        corr == IF correlatedEvent THEN 3 ELSE 0
        pf == previousFailures(attackResult, history)
        penalty == IF pf > 3 THEN pf - 3 ELSE 0
        reward == base + bonus + corr - penalty
    IN  Max(-10, Min(15, reward))

\* processAttackResult, lines 97-112: the LearningRecord
LearningRecord(result, correlationResults, history) ==
    [vectorId |-> result.vectorId, vectorName |-> result.vectorName,
     success |-> result.success, severity |-> result.severity,
     reward |-> calculateReward(result, correlationResults, history)]

\* processAttackResult, lines 114-117: lastSuccess of a known vector
setLastSuccess(weights, result) ==
    IF result.vectorId \in DOMAIN weights
    THEN [weights EXCEPT ![result.vectorId].lastSuccess =
              IF result.success THEN Timestamp ELSE NULL]
    ELSE weights

\* updateWeight with the learning rate applied to the old rate instead of the
\* observation
updateWeightSwappedAlpha(weights, record) ==
    LET w0 == IF record.vectorId \in DOMAIN weights
              THEN weights
              ELSE (record.vectorId :> Weight(Pct(50), 0)) @@ weights
        old == w0[record.vectorId]
    IN  [w0 EXCEPT ![record.vectorId] =
            [old EXCEPT
              !.successRate = (old.successRate
                               + 9 * (IF record.success THEN RateScale ELSE 0)) \div 10,
              !.attempts = old.attempts + 1]]

\* updateModelWeights, one iteration of the loop
updateWeight(weights, record) ==
    LET w0 == IF record.vectorId \in DOMAIN weights
              THEN weights
              ELSE (record.vectorId :> Weight(Pct(50), 0)) @@ weights
        old == w0[record.vectorId]
    IN  [w0 EXCEPT ![record.vectorId] =
            [old EXCEPT
              !.successRate = (9 * old.successRate
                               + (IF record.success THEN RateScale ELSE 0)) \div 10,
              !.attempts = old.attempts + 1]]

\* updateModelWeights that writes each vector's weight from the value it had
\* before the loop, so that only the last record of a vector counts
updateModelWeightsFromSnapshot(weights, records) ==
    LET known == DOMAIN weights \cup {records[i].vectorId : i \in DOMAIN records}
        Last(v) == CHOOSE i \in DOMAIN records :
                      /\ records[i].vectorId = v
                      /\ \A j \in DOMAIN records : records[j].vectorId = v => j <= i
    IN  [v \in known |->
            IF \E i \in DOMAIN records : records[i].vectorId = v
            THEN LET old == IF v \in DOMAIN weights THEN weights[v] ELSE Weight(Pct(50), 0)
                 IN  [old EXCEPT
                        !.successRate = (9 * old.successRate
                            + (IF records[Last(v)].success THEN RateScale ELSE 0)) \div 10,
                        !.attempts = old.attempts + 1]
            ELSE weights[v]]

RECURSIVE updateModelWeights(_, _)
updateModelWeights(weights, records) ==
    IF records = <<>> THEN weights
    ELSE updateModelWeights(updateWeight(weights, Head(records)), Tail(records))

\* saveLearningHistory: the file after a write that succeeded or threw
saveLearningHistory(file, history, ok) ==
    IF ok THEN FileOf(history) ELSE file

-----------------------------------------------------------------------------------------------------------------------------------------------------
(* Inputs of the learning model *)

Callers == {"A", "B"}

CustomVector == [id |-> "custom-1", name |-> "Custom Probe", severity |-> "low"]

\* a critical catalog vector, succeeding and failing, and a vector the weight
\* table does not know
LearnResults ==
    { AttackResult(attackVectors[1], TRUE),
      AttackResult(attackVectors[1], FALSE),
      AttackResult(CustomVector, TRUE) }

RECURSIVE SeqsUpTo(_, _)
SeqsUpTo(S, n) ==
    IF n = 0 THEN {<<>>}
    ELSE LET shorter == SeqsUpTo(S, n - 1)
         IN  shorter \cup {Append(s, x) : s \in {t \in shorter : Len(t) = n - 1}, x \in S}

\* correlationResults?.findings: undefined, or the findings array
NoCorrelation == [defined |-> FALSE, findings |-> <<>>]
Correlation(findings) == [defined |-> TRUE, findings |-> findings]

\* correlation results handed to learn()
LearnCorrelations ==
    { NoCorrelation,
      Correlation(<< [name |-> "SQL Injection", severity |-> "critical"] >>) }

FailureRecord(vector) ==
    [vectorId |-> vector.id, vectorName |-> vector.name, success |-> FALSE,
     severity |-> vector.severity, reward |-> -2]

\* history files left by earlier processes
PriorFiles ==
    { FileMissing, FileCorrupt, FileOf(<<FailureRecord(attackVectors[1])>>) }

NoSummary == [returned |-> FALSE, recordsProcessed |-> 0]

IdleCall == [pc |-> "idle", results |-> <<>>, correlation |-> NoCorrelation, i |-> 0,
             records |-> <<>>, seenFailures |-> <<>>, startHistory |-> <<>>,
             saved |-> "none", summary |-> NoSummary]

NoEngine == [exists |-> FALSE, weights |-> initializeModelWeights,
             history |-> <<>>, saved |-> "none"]

-----------------------------------------------------------------------------
(* Function evaluation: arguments drawn by Init, one action that calls *)

NoFrame == [pc |-> "idle", signals |-> <<>>, enrichedSignals |-> <<>>,
            correlatedEvents |-> <<>>, result |-> <<>>]

NoRun == [pc |-> "idle"]

FnIdle == arg = <<>> /\ ret = <<>> /\ frame = NoFrame /\ pipe = NoRun

-----------------------------------------------------------------------------
(* AttackSimulationEngine.runAttacks *)

\* an engine that was constructed on a missing file and has no call in flight
LearnIdle ==
    /\ historyFile = FileMissing
    /\ modelWeights = initializeModelWeights
    /\ learningHistory = <<>>
    /\ calls = [c \in Callers |-> IdleCall]
    /\ processed = 0
    /\ lastSave = "none"
    /\ prevEngine = NoEngine

\* a filter without its final `return true`
filterRelevantAttacksMatchingOnly(vectors) ==
    SelectSeq(vectors, LAMBDA vector :
        \/ Includes(vector.name, "SQL") \/ Includes(vector.name, "XSS")
        \/ Includes(vector.name, "Authentication")
        \/ Includes(vector.name, "Port"))

\* filterRelevantAttacks: every branch of the filter returns true
filterRelevantAttacks(vectors) == vectors

\* the outcomes of `Math.random() < baseSuccessRate` over the catalog: the rate
\* is strictly between 0 and 1, so every vector can succeed or be blocked
RandomDraws ==
    { [i \in DOMAIN attackVectors |-> TRUE],
      [i \in DOMAIN attackVectors |-> FALSE],
      [i \in DOMAIN attackVectors |-> i % 2 = 1] }

\* generateEvidence: the template of the vector's name, or the fallback text
generateEvidence(vector) ==
    CASE vector.name = "SQL Injection" ->
            "Error-based injection successful. Database version: MySQL 8.0.23"
      [] vector.name = "Cross-Site Scripting" ->
            "Stored XSS confirmed in comment field. Payload executed."
      [] vector.name = "Broken Authentication" ->
            "Session fixation detected. Token reuse possible."
      [] vector.name = "IDOR" ->
            "User ID parameter manipulable. Access to other user data confirmed."
      [] vector.name = "SSH Brute Force" -> "Weak password combination found: admin/admin123"
      [] vector.name = "Port Exploitation" -> "Exploitable service detected on port 22"
      [] vector.name = "Lateral Movement" -> "Successfully moved to adjacent network segment"
      [] vector.name = "Privilege Escalation" ->
            "Sudo misconfiguration found. Root access achieved."
      [] OTHER -> "Exploitation successful"

\* generateError: the template of the vector's name, or the fallback text
generateError(vector) ==
    CASE vector.name = "SQL Injection" -> "Input sanitization blocked injection attempt"
      [] vector.name = "Cross-Site Scripting" -> "Content Security Policy prevented XSS"
      [] vector.name = "Broken Authentication" -> "Rate limiting and MFA blocked brute force"
      [] vector.name = "IDOR" -> "Authorization checks prevented unauthorized access"
      [] vector.name = "SSH Brute Force" -> "SSH keys required, password auth disabled"
      [] vector.name = "Port Exploitation" -> "Service properly patched and not vulnerable"
      [] vector.name = "Lateral Movement" -> "Network segmentation prevented movement"
      [] vector.name = "Privilege Escalation" -> "No exploitable misconfigurations found"
      [] OTHER -> "Attack blocked by security controls"

\* a result that carries its evidence whatever the outcome
executeAttackEvidenceAlways(c, i, vector, success) ==
    [id |-> <<c, i>>, vectorId |-> vector.id, vectorName |-> vector.name,
     severity |-> vector.severity, success |-> success,
     evidence |-> generateEvidence(vector),
     error |-> IF success THEN NULL ELSE generateError(vector)]

\* executeAttack: the result, with its uuid (caller and position)
executeAttack(c, i, vector, success) ==
    [id |-> <<c, i>>, vectorId |-> vector.id, vectorName |-> vector.name,
     severity |-> vector.severity, success |-> success,
     evidence |-> IF success THEN generateEvidence(vector) ELSE NULL,
     error |-> IF success THEN NULL ELSE generateError(vector)]

\* the history array replaced by this call's results
pushHistoryFromResults(history, results, attackResult) ==
    Append(results, attackResult)

\* runAttacks line 101: this.attackHistory.push(attackResult)
pushHistory(history, results, attackResult) ==
    Append(history, attackResult)

IdleRun == [pc |-> "idle", draws |-> [i \in DOMAIN attackVectors |-> FALSE], i |-> 0,
            results |-> <<>>,
            summary |-> [totalAttacks |-> 0, successfulAttacks |-> 0, failedAttacks |-> 0]]

AttackIdle ==
    /\ attackHistory = <<>>
    /\ runs = [c \in Callers |-> IdleRun]

AttackOnly == UNCHANGED <<learnVars, fnVars, pipe>>

InitAttack ==
    /\ LearnIdle
    /\ AttackIdle
    /\ FnIdle

\* runAttacks() is called: runs up to the delay of the first executeAttack
RunAttacksStart(c) ==
    /\ runs[c].pc = "idle"
    /\ c = "B" => runs["A"].pc # "idle"       \* callers are named in call order
    /\ \E draws \in RandomDraws :
          runs' = [runs EXCEPT ![c] = [IdleRun EXCEPT !.pc = "delay", !.draws = draws, !.i = 1]]
    /\ UNCHANGED attackHistory
    /\ AttackOnly

\* the delay of vector i elapses: executeAttack returns its result, runAttacks
\* pushes it on results and on the history and suspends on the next vector, or
\* returns
RunAttacksStep(c) ==
    /\ runs[c].pc = "delay"
    /\ LET run == runs[c]
           relevantVectors == filterRelevantAttacks(attackVectors)
           attackResult == executeAttack(c, run.i, relevantVectors[run.i], run.draws[run.i])
           results == Append(run.results, attackResult)
       IN  /\ attackHistory' = pushHistory(attackHistory, run.results, attackResult)
           /\ runs' = [runs EXCEPT ![c] =
                 IF run.i < Len(relevantVectors)
                 THEN [run EXCEPT !.results = results, !.i = run.i + 1]
                 ELSE [run EXCEPT
                         !.results = results, !.pc = "done",
                         !.summary =
                            [totalAttacks |-> Len(results),
                             successfulAttacks |->
                                 Len(SelectSeq(results, LAMBDA r : r.success)),
                             failedAttacks |->
                                 Len(SelectSeq(results, LAMBDA r : ~r.success))]]]
    /\ AttackOnly

NextAttack ==
    \/ \E c \in Callers : RunAttacksStart(c)
    \/ \E c \in Callers : RunAttacksStep(c)

SpecAttack == InitAttack /\ [][NextAttack]_vars

-----------------------------------------------------------------------------
(* Actions of the learning model.  A step is what runs between two          *)
(* suspensions: a timer callback runs with the promise continuations it     *)
(* resolves (processAttackResult's tail, then learn's loop up to the next   *)
(* delay) before any other timer callback.                                  *)

InitLearn ==
    /\ historyFile \in PriorFiles
    /\ modelWeights = initializeModelWeights
    /\ learningHistory = loadLearningHistory(historyFile)
    /\ calls = [c \in Callers |-> IdleCall]
    /\ processed = 0
    /\ lastSave = "none"
    /\ prevEngine = NoEngine
    /\ AttackIdle
    /\ FnIdle

\* LearnFinish with the save placed before the push of the run's records
LearnFinishSaveBeforePush(c, call, weights, ok) ==
    LET newWeights == updateModelWeights(weights, call.records)
        newHistory == learningHistory \o call.records
    IN  /\ modelWeights' = newWeights
        /\ learningHistory' = newHistory
        /\ historyFile' = saveLearningHistory(historyFile, learningHistory, ok)
        /\ lastSave' = IF ok THEN "ok" ELSE "failed"
        /\ calls' = [calls EXCEPT ![c] =
                        [call EXCEPT !.pc = "done",
                                     !.saved = IF ok THEN "ok" ELSE "failed",
                                     !.summary = [returned |-> TRUE,
                                                  recordsProcessed |-> Len(call.records)]]]

\* learn(), lines 72-91: everything after the loop, run without suspension
LearnFinish(c, call, weights, ok) ==
    LET newWeights == updateModelWeights(weights, call.records)
        newHistory == learningHistory \o call.records
    IN  /\ modelWeights' = newWeights
        /\ learningHistory' = newHistory
        /\ historyFile' = saveLearningHistory(historyFile, newHistory, ok)
        /\ lastSave' = IF ok THEN "ok" ELSE "failed"
        /\ calls' = [calls EXCEPT ![c] =
                        [call EXCEPT !.pc = "done",
                                     !.saved = IF ok THEN "ok" ELSE "failed",
                                     !.summary = [returned |-> TRUE,
                                                  recordsProcessed |-> Len(call.records)]]]

LearnOnly == UNCHANGED <<attackVars, fnVars, pipe>>

\* learn() is called: runs up to the first await (the delay of the first result),
\* or to the end when there is no result
LearnStart(c) ==
    /\ calls[c].pc = "idle"
    /\ c = "B" => calls["A"].pc # "idle"      \* callers are named in call order
    /\ \E results \in SeqsUpTo(LearnResults, MaxResults), corr \in LearnCorrelations :
         /\ processed + Len(results) <= MaxTotal
         /\ processed' = processed + Len(results)
         /\ LET call == [IdleCall EXCEPT !.results = results, !.correlation = corr,
                                         !.startHistory = learningHistory]
            IN  IF results = <<>>
                THEN \E ok \in BOOLEAN : LearnFinish(c, call, modelWeights, ok)
                ELSE /\ calls' = [calls EXCEPT ![c] = [call EXCEPT !.pc = "delay", !.i = 1]]
                     /\ UNCHANGED <<modelWeights, learningHistory, historyFile, lastSave>>
    /\ UNCHANGED prevEngine
    /\ LearnOnly

\* the delay of result i elapses: processAttackResult builds the record and sets
\* lastSuccess, learn() pushes the record and either suspends on the next result
\* or runs to its end
LearnStep(c) ==
    /\ calls[c].pc = "delay"
    /\ LET call == calls[c]
           result == call.results[call.i]
           record == LearningRecord(result, call.correlation, learningHistory)
           weights == setLastSuccess(modelWeights, result)
           pushed == [call EXCEPT !.records = Append(call.records, record),
                                  !.seenFailures = Append(call.seenFailures,
                                      previousFailures(result, learningHistory))]
       IN  IF call.i < Len(call.results)
           THEN /\ modelWeights' = weights
                /\ calls' = [calls EXCEPT ![c] = [pushed EXCEPT !.i = call.i + 1]]
                /\ UNCHANGED <<learningHistory, historyFile, lastSave>>
           ELSE \E ok \in BOOLEAN : LearnFinish(c, pushed, weights, ok)
    /\ UNCHANGED <<processed, prevEngine>>
    /\ LearnOnly

\* the process ends and a later process constructs a new engine (the model
\* follows a process and its successor)
Construct ==
    /\ \A c \in Callers : calls[c].pc \in {"idle", "done"}
    /\ \E c \in Callers : calls[c].pc = "done"
    /\ ~prevEngine.exists
    /\ prevEngine' = [exists |-> TRUE, weights |-> modelWeights,
                      history |-> learningHistory, saved |-> lastSave]
    /\ modelWeights' = initializeModelWeights
    /\ learningHistory' = loadLearningHistory(historyFile)
    /\ calls' = [c \in Callers |-> IdleCall]
    /\ lastSave' = "none"
    /\ UNCHANGED <<historyFile, processed>>
    /\ LearnOnly

NextLearn ==
    \/ \E c \in Callers : LearnStart(c)
    \/ \E c \in Callers : LearnStep(c)
    \/ Construct

SpecLearn == InitLearn /\ [][NextLearn]_vars

-----------------------------------------------------------------------------
(* SignalCorrelator *)

loadThreatIntelligence ==
    [cve \in {"CVE-2020-15778", "CVE-2021-44228", "CVE-2022-22965", "CVE-2023-46805"} |->
        CASE cve = "CVE-2020-15778" -> [severity |-> "high", active |-> TRUE]
          [] cve = "CVE-2021-44228" -> [severity |-> "critical", active |-> TRUE]
          [] cve = "CVE-2022-22965" -> [severity |-> "critical", active |-> TRUE]
          [] cve = "CVE-2023-46805" -> [severity |-> "high", active |-> TRUE]]

initializeCorrelationRules ==
    << [id |-> "rule-1", name |-> "SQL Injection + Database Access",
        pattern |-> <<"SQL Injection", "MySQL", "PostgreSQL">>, severity |-> "critical"],
       [id |-> "rule-2", name |-> "XSS + Session Hijacking",
        pattern |-> <<"XSS", "Broken Authentication">>, severity |-> "high"],
       [id |-> "rule-3", name |-> "SSH Brute Force + Root Access",
        pattern |-> <<"SSH Brute Force", "Privilege Escalation">>, severity |-> "critical"],
       [id |-> "rule-4", name |-> "Port Exploitation + Lateral Movement",
        pattern |-> <<"Port Exploitation", "Lateral Movement">>, severity |-> "critical"] >>

\* a collectSignals that reads scanResults.vulnerabilities without its guard
collectSignalsUnguarded(scanResults, attackResults) ==
    LET vulns == scanResults.vulnerabilities
        attacks == IF attackResults.hasResults THEN attackResults.results ELSE <<>>
    IN  [i \in 1..(Len(vulns) + Len(attacks)) |->
            IF i <= Len(vulns)
            THEN [id |-> i, type |-> "vulnerability", name |-> vulns[i].name,
                  severity |-> vulns[i].severity, cve |-> vulns[i].cve,
                  assetId |-> vulns[i].assetId, threatIntel |-> NULL]
            ELSE [id |-> i, type |-> "attack", name |-> attacks[i - Len(vulns)].vectorName,
                  severity |-> attacks[i - Len(vulns)].severity, cve |-> NULL,
                  assetId |-> NULL, threatIntel |-> NULL]]

\* collectSignals: one signal per vulnerability, then one per attack result;
\* the uuid of a signal is its position
collectSignals(scanResults, attackResults) ==
    LET vulns == IF scanResults.hasVulnerabilities THEN scanResults.vulnerabilities ELSE <<>>
        attacks == IF attackResults.hasResults THEN attackResults.results ELSE <<>>
    IN  [i \in 1..(Len(vulns) + Len(attacks)) |->
            IF i <= Len(vulns)
            THEN [id |-> i, type |-> "vulnerability", name |-> vulns[i].name,
                  severity |-> vulns[i].severity, cve |-> vulns[i].cve,
                  assetId |-> vulns[i].assetId, threatIntel |-> NULL]
            ELSE [id |-> i, type |-> "attack", name |-> attacks[i - Len(vulns)].vectorName,
                  severity |-> attacks[i - Len(vulns)].severity, cve |-> NULL,
                  assetId |-> NULL, threatIntel |-> NULL]]

\* an enrichment that copies the severity of the feed entry
enrichSignalFeedSeverity(signal) ==
    IF signal.cve # NULL /\ signal.cve \in DOMAIN loadThreatIntelligence
    THEN LET intel == loadThreatIntelligence[signal.cve]
         IN  [signal EXCEPT !.threatIntel = intel.severity,
                            !.severity = intel.severity]
    ELSE signal

\* enrichWithThreatIntel, the callback of map
enrichSignal(signal) ==
    IF signal.cve # NULL /\ signal.cve \in DOMAIN loadThreatIntelligence
    THEN LET intel == loadThreatIntelligence[signal.cve]
         IN  [signal EXCEPT !.threatIntel = intel.severity,
                            !.severity = IF intel.severity = "critical"
                                         THEN "critical" ELSE signal.severity]
    ELSE signal

enrichWithThreatIntel(signals) == [i \in DOMAIN signals |-> enrichSignal(signals[i])]

determineKillChainPhase(name) ==
    CASE Includes(name, "SQL Injection")        -> "Exploitation"
      [] Includes(name, "XSS")                  -> "Exploitation"
      [] Includes(name, "SSH Brute Force")      -> "Initial Access"
      [] Includes(name, "Port Exploitation")    -> "Exploitation"
      [] Includes(name, "Lateral Movement")     -> "Lateral Movement"
      [] Includes(name, "Privilege Escalation") -> "Privilege Escalation"
      [] OTHER                                  -> "Reconnaissance"

\* a rule that matches by its first substring only
matchedSignalsFirstPattern(rule, signals) ==
    SelectSeq(signals, LAMBDA signal : Includes(signal.name, rule.pattern[1]))

\* applyCorrelationRules line 159-161: the signals a rule matches
matchedSignals(rule, signals) ==
    SelectSeq(signals, LAMBDA signal :
        \E k \in DOMAIN rule.pattern : Includes(signal.name, rule.pattern[k]))

\* a rule that fires on a single matching signal
ruleFiresOnOne(matched) == Len(matched) >= 1

\* applyCorrelationRules line 163: the rule fires
ruleFires(matched) == Len(matched) >= 2

\* the `data` property of an object that has none
NoData == [defined |-> FALSE, assetId |-> NULL]

\* applyCorrelationRules, the loop over the rules: events and claimed signal ids.
\* An event object has no `name` and no `data` property (only ruleName and the
\* signal ids): reading them yields undefined, which the name and data fields
\* of the record stand for.
RECURSIVE applyRules(_, _, _, _)
applyRules(rules, signals, events, matchedPatterns) ==
    IF rules = <<>> THEN [events |-> events, matchedPatterns |-> matchedPatterns]
    ELSE LET rule == Head(rules)
             matched == matchedSignals(rule, signals)
         IN  IF ruleFires(matched)
             THEN applyRules(Tail(rules), signals,
                      Append(events,
                          [name |-> NULL, data |-> NoData,
                           ruleId |-> rule.id, ruleName |-> rule.name,
                           severity |-> rule.severity,
                           signals |-> [i \in DOMAIN matched |-> matched[i].id],
                           killChainPhase |-> determineKillChainPhase(rule.name)]),
                      matchedPatterns \cup {matched[i].id : i \in DOMAIN matched})
             ELSE applyRules(Tail(rules), signals, events, matchedPatterns)

\* events that carry as name the name of their first signal
applyCorrelationRulesNamed(signals) ==
    LET ruled == applyRules(initializeCorrelationRules, signals, <<>>, {})
        uncorrelatedSignals ==
            SelectSeq(signals, LAMBDA s : s.id \notin ruled.matchedPatterns)
    IN  [i \in DOMAIN ruled.events |->
            [ruled.events[i] EXCEPT !.name = signals[ruled.events[i].signals[1]].name]]
        \o
        [i \in DOMAIN uncorrelatedSignals |->
            [name |-> uncorrelatedSignals[i].name, data |-> NoData,
             ruleId |-> NULL, ruleName |-> "Single Finding",
             severity |-> uncorrelatedSignals[i].severity,
             signals |-> <<uncorrelatedSignals[i].id>>,
             killChainPhase |-> determineKillChainPhase(uncorrelatedSignals[i].name)]]

\* applyCorrelationRules: rule events, then one event per unclaimed signal
applyCorrelationRules(signals) ==
    LET ruled == applyRules(initializeCorrelationRules, signals, <<>>, {})
        uncorrelatedSignals ==
            SelectSeq(signals, LAMBDA s : s.id \notin ruled.matchedPatterns)
    IN  ruled.events \o
        [i \in DOMAIN uncorrelatedSignals |->
            [name |-> NULL, data |-> NoData, ruleId |-> NULL, ruleName |-> "Single Finding",
             severity |-> uncorrelatedSignals[i].severity,
             signals |-> <<uncorrelatedSignals[i].id>>,
             killChainPhase |-> determineKillChainPhase(uncorrelatedSignals[i].name)]]

CountSeverity(events, severity) ==
    Len(SelectSeq(events, LAMBDA e : e.severity = severity))

\* the scores without the cap of the risk score
calculateSeverityScoresUncapped(events) ==
    [critical |-> CountSeverity(events, "critical"),
     high |-> CountSeverity(events, "high"),
     medium |-> CountSeverity(events, "medium"),
     low |-> CountSeverity(events, "low"),
     riskScore |-> CountSeverity(events, "critical") * 25
                   + CountSeverity(events, "high") * 10
                   + CountSeverity(events, "medium") * 5]

calculateSeverityScores(events) ==
    [critical |-> CountSeverity(events, "critical"),
     high |-> CountSeverity(events, "high"),
     medium |-> CountSeverity(events, "medium"),
     low |-> CountSeverity(events, "low"),
     riskScore |-> Min(CountSeverity(events, "critical") * 25
                       + CountSeverity(events, "high") * 10
                       + CountSeverity(events, "medium") * 5, 100)]

\* a filter that keeps every medium event
keepEventAnyMedium(event) ==
    IF event.severity = "low" THEN FALSE
    ELSE IF event.severity = "critical" \/ event.severity = "high" THEN TRUE
    ELSE IF event.severity = "medium" THEN TRUE
    ELSE FALSE

\* eliminateFalsePositives, the callback of filter
keepEvent(event) ==
    IF event.severity = "low" THEN FALSE
    ELSE IF event.severity = "critical" \/ event.severity = "high" THEN TRUE
    ELSE IF event.severity = "medium" /\ Len(event.signals) > 1 THEN TRUE
    ELSE FALSE

\* a filter that drops nothing
eliminateFalsePositivesNone(events) == events

eliminateFalsePositives(events) == SelectSeq(events, keepEvent)

\* one chain per critical event
buildAttackChainsPerEvent(events) ==
    LET criticalEvents == SelectSeq(events, LAMBDA e : e.severity = "critical")
    IN  [i \in DOMAIN criticalEvents |->
            [name |-> "Critical Attack Path", events |-> <<criticalEvents[i]>>,
             complexity |-> "High", likelihood |-> "Likely"]]

buildAttackChains(events) ==
    LET criticalEvents == SelectSeq(events, LAMBDA e : e.severity = "critical")
    IN  IF Len(criticalEvents) > 0
        THEN << [name |-> "Critical Attack Path", events |-> criticalEvents,
                 complexity |-> "High", likelihood |-> "Likely"] >>
        ELSE <<>>

\* correlate, lines 66-90: what follows the last await
correlationResult(signals, correlatedEvents) ==
    LET severityScores == calculateSeverityScores(correlatedEvents)
        filteredSignals == eliminateFalsePositives(correlatedEvents)
    IN  [totalSignals |-> Len(signals),
         correlatedEvents |-> Len(correlatedEvents),
         filteredSignals |-> Len(filteredSignals),
         attackChains |-> buildAttackChains(filteredSignals),
         severityScores |-> severityScores,
         findings |-> filteredSignals,
         summary |-> [critical |-> CountSeverity(filteredSignals, "critical"),
                      high |-> CountSeverity(filteredSignals, "high"),
                      medium |-> CountSeverity(filteredSignals, "medium"),
                      low |-> CountSeverity(filteredSignals, "low")]]

-----------------------------------------------------------------------------
(* Inputs and actions of the correlator model *)

\* an asset of the inventory; its uuid is written asset-n
Asset(id, port, service) == [id |-> id, port |-> port, service |-> service]

\* generateAssetInventory over the services on the open ports 22, 80 and 443
generateAssetInventory ==
    << Asset("asset-1", 22, "ssh"), Asset("asset-2", 80, "http"),
       Asset("asset-3", 443, "https") >>

Vulnerability(name, severity, cve, assetId) ==
    [name |-> name, severity |-> severity, cve |-> cve, assetId |-> assetId]

VulnPool ==
    { Vulnerability("OpenSSH User Enumeration", "medium", "CVE-2020-15778", "asset-1"),
      Vulnerability("Missing Security Headers", "medium", NULL, "asset-2"),
      Vulnerability("MySQL Remote Root Access", "high", NULL, "asset-3"),
      Vulnerability("Log4j Remote Code Execution", "medium", "CVE-2021-44228", "asset-2"),
      Vulnerability("SQL Injection in login form", "low", "CVE-2019-0001", "asset-2"),
      Vulnerability("Server Banner Disclosure", "low", NULL, "asset-1"),
      Vulnerability("XSS and SQL Injection in search", "medium", NULL, "asset-2") }

\* what stands in the place of an array that the scan result does not have: it
\* is no array, and code that guards its reads never looks at it
UndefinedVulnerabilities == <<Vulnerability("undefined", "undefined", NULL, NULL)>>
UndefinedAssets == <<Asset(NULL, 0, "undefined")>>

\* a scan result with the scanner's asset inventory
ScanResult(vulnerabilities) ==
    [hasVulnerabilities |-> TRUE, vulnerabilities |-> vulnerabilities,
     hasAssets |-> TRUE, assets |-> generateAssetInventory]

AttackResults(results) == [hasResults |-> TRUE, results |-> results]

\* the attack results handed to correlate(): none, single results, the catalog
AttackInputs ==
    { AttackResults(<<>>),
      AttackResults(<<AttackResult(attackVectors[1], TRUE)>>),
      AttackResults(<<AttackResult(attackVectors[2], FALSE)>>),
      AttackResults(<<AttackResult(attackVectors[4], TRUE),
                      AttackResult(attackVectors[5], TRUE)>>) }
    \cup { AttackResults([i \in DOMAIN attackVectors |->
                              AttackResult(attackVectors[i], draws[i])]) :
           draws \in RandomDraws }

CorrelateOnly == UNCHANGED <<learnVars, attackVars, ret, pipe>>

InitCorrelate ==
    /\ LearnIdle
    /\ AttackIdle
    /\ ret = <<>>
    /\ frame = NoFrame
    /\ pipe = NoRun
    /\ \E vulns \in SeqsUpTo(VulnPool, MaxVulns), attacks \in AttackInputs :
          arg = [scanResults |-> ScanResult(vulns), attackResults |-> attacks]

\* correlate() is called: collects the signals and suspends in enrichWithThreatIntel
CorrelateStart ==
    /\ frame.pc = "idle"
    /\ frame' = [frame EXCEPT !.pc = "enrich",
                            !.signals = collectSignals(arg.scanResults, arg.attackResults)]
    /\ UNCHANGED arg
    /\ CorrelateOnly

\* the enrichment delay elapses; correlate() suspends in applyCorrelationRules
CorrelateEnriched ==
    /\ frame.pc = "enrich"
    /\ frame' = [frame EXCEPT !.pc = "rules",
                            !.enrichedSignals = enrichWithThreatIntel(frame.signals)]
    /\ UNCHANGED arg
    /\ CorrelateOnly

\* the rule delay elapses; correlate() scores, filters, chains and returns
CorrelateFinish ==
    /\ frame.pc = "rules"
    /\ LET correlatedEvents == applyCorrelationRules(frame.enrichedSignals)
       IN  frame' = [frame EXCEPT !.pc = "done",
                                !.correlatedEvents = correlatedEvents,
                                !.result = <<correlationResult(frame.signals, correlatedEvents)>>]
    /\ UNCHANGED arg
    /\ CorrelateOnly

NextCorrelate ==
    \/ CorrelateStart
    \/ CorrelateEnriched
    \/ CorrelateFinish

SpecCorrelate == InitCorrelate /\ [][NextCorrelate]_vars

-----------------------------------------------------------------------------
(* RemediationGenerator *)

\* String.prototype.toLowerCase, letter by letter
lowerChar(ch) ==
    CASE ch = "A" -> "a" [] ch = "B" -> "b" [] ch = "C" -> "c" [] ch = "D" -> "d"
      [] ch = "E" -> "e" [] ch = "F" -> "f" [] ch = "G" -> "g" [] ch = "H" -> "h"
      [] ch = "I" -> "i" [] ch = "J" -> "j" [] ch = "K" -> "k" [] ch = "L" -> "l"
      [] ch = "M" -> "m" [] ch = "N" -> "n" [] ch = "O" -> "o" [] ch = "P" -> "p"
      [] ch = "Q" -> "q" [] ch = "R" -> "r" [] ch = "S" -> "s" [] ch = "T" -> "t"
      [] ch = "U" -> "u" [] ch = "V" -> "v" [] ch = "W" -> "w" [] ch = "X" -> "x"
      [] ch = "Y" -> "y" [] ch = "Z" -> "z" [] OTHER -> ch

RECURSIVE toLowerCase(_)
toLowerCase(s) ==
    IF Len(s) = 0 THEN ""
    ELSE lowerChar(SubSeq(s, 1, 1)) \o toLowerCase(SubSeq(s, 2, Len(s)))

\* loadRemediationTemplates: the keys of the table in insertion order; a
\* template is named by its key
loadRemediationTemplates ==
    << "SQL Injection", "Cross-Site Scripting", "Broken Authentication",
       "Missing Security Headers", "SSH", "Redis", "MySQL", "Default" >>

\* loadComplianceMappings: the frameworks in insertion order
loadComplianceMappings == << "SOC2", "HIPAA", "PCI", "GDPR" >>

\* findTemplate: the first key contained in the name, letter case apart; an
\* undefined name matches no key
RECURSIVE findTemplateFrom(_, _)
findTemplateFrom(keys, findingName) ==
    IF keys = <<>> THEN "Default"
    ELSE IF findingName # NULL /\ Includes(toLowerCase(findingName), toLowerCase(Head(keys)))
         THEN Head(keys)
         ELSE findTemplateFrom(Tail(keys), findingName)

findTemplate(findingName) == findTemplateFrom(loadRemediationTemplates, findingName)

\* getAffectedAssets: the assets whose id is finding.data?.assetId
getAffectedAssets(finding, scanResults) ==
    IF scanResults.hasAssets
    THEN SelectSeq(scanResults.assets,
                   LAMBDA asset : finding.data.defined /\ finding.data.assetId = asset.id)
    ELSE <<>>

\* a mapping that attaches the frameworks to critical findings only
mapToComplianceCriticalOnly(finding) ==
    IF finding.severity = "critical"
    THEN [k \in DOMAIN loadComplianceMappings |->
             [framework |-> loadComplianceMappings[k], relevance |-> "High"]]
    ELSE <<>>

\* mapToCompliance: every framework of the table, for critical and high findings
mapToCompliance(finding) ==
    IF finding.severity = "critical" \/ finding.severity = "high"
    THEN [k \in DOMAIN loadComplianceMappings |->
             [framework |-> loadComplianceMappings[k],
              relevance |-> IF finding.severity = "critical" THEN "High" ELSE "Medium"]]
    ELSE <<>>

\* getEffortEstimate, in hours
getEffortEstimate(severity) ==
    CASE severity = "critical" -> 8
      [] severity = "high"     -> 4
      [] severity = "medium"   -> 2
      [] severity = "low"      -> 1
      [] OTHER                 -> 2

\* createRemediation; the uuid of a finding is its position in the findings
createRemediation(findingId, finding, scanResults) ==
    [findingId |-> findingId,
     name |-> IF finding.name # NULL THEN finding.name ELSE finding.ruleName,
     severity |-> finding.severity,
     killChainPhase |-> finding.killChainPhase,
     template |-> findTemplate(finding.name),
     affectedAssets |-> getAffectedAssets(finding, scanResults),
     complianceFrameworks |-> mapToCompliance(finding),
     estimatedEffort |-> getEffortEstimate(finding.severity)]

\* sortByPriority line 250: severityOrder[severity], a one-element tuple, or
\* the empty tuple (undefined) for a severity that is not a key of the table
severityOrder(severity) ==
    CASE severity = "critical" -> <<0>>
      [] severity = "high"     -> <<1>>
      [] severity = "medium"   -> <<2>>
      [] severity = "low"      -> <<3>>
      [] OTHER                 -> <<>>

\* the comparator of sortByPriority: the difference of the ranks; with an
\* undefined rank the difference is NaN, which sort takes as 0
compareSeverity(a, b) ==
    IF severityOrder(a.severity) = <<>> \/ severityOrder(b.severity) = <<>>
    THEN 0
    ELSE severityOrder(a.severity)[1] - severityOrder(b.severity)[1]

\* r inserted into a sorted list behind every item that does not compare greater
RECURSIVE insertSorted(_, _)
insertSorted(sorted, r) ==
    IF sorted = <<>> THEN <<r>>
    ELSE IF compareSeverity(sorted[Len(sorted)], r) > 0
         THEN Append(insertSorted(SubSeq(sorted, 1, Len(sorted) - 1), r),
                     sorted[Len(sorted)])
         ELSE Append(sorted, r)

RECURSIVE sortFrom(_, _)
sortFrom(sorted, rest) ==
    IF rest = <<>> THEN sorted
    ELSE sortFrom(insertSorted(sorted, Head(rest)), Tail(rest))

\* a sort that puts an item before the items it compares equal to
sortByPriorityUnstable(remediations) ==
    LET reversed == [i \in DOMAIN remediations |->
                        remediations[Len(remediations) + 1 - i]]
    IN  sortFrom(<<>>, reversed)

\* sortByPriority: Array.prototype.sort with the comparator above. The sort is
\* stable; the ranks of the four severities are totally ordered, so the result
\* is the one stable ordering of the list.
sortByPriority(remediations) == sortFrom(<<>>, remediations)

\* groupByCompliance: one group per framework that some remediation maps to
groupByCompliance(remediations) ==
    LET mapped == SelectSeq(remediations, LAMBDA r : r.complianceFrameworks # <<>>)
    IN  IF mapped = <<>> THEN <<>>
        ELSE [k \in DOMAIN loadComplianceMappings |->
                 [framework |-> loadComplianceMappings[k],
                  relevance |-> mapped[1].complianceFrameworks[k].relevance,
                  remediations |-> [i \in DOMAIN mapped |->
                                       [name |-> mapped[i].name,
                                        severity |-> mapped[i].severity]]]]

RECURSIVE SumEffort(_)
SumEffort(remediations) ==
    IF remediations = <<>> THEN 0
    ELSE getEffortEstimate(Head(remediations).severity) + SumEffort(Tail(remediations))

estimateEffort(remediations) ==
    [totalHours |-> SumEffort(remediations),
     breakdown |-> [critical |-> CountSeverity(remediations, "critical") * 8,
                    high |-> CountSeverity(remediations, "high") * 4,
                    medium |-> CountSeverity(remediations, "medium") * 2,
                    low |-> CountSeverity(remediations, "low") * 1]]

\* generate run alone
generate(correlationResults, scanResults) ==
    LET findings == correlationResults.findings
        remediations ==
            [i \in DOMAIN findings |-> createRemediation(i, findings[i], scanResults)]
        sortedRemediations == sortByPriority(remediations)
    IN  [totalRemediations |-> Len(sortedRemediations),
         remediations |-> sortedRemediations,
         complianceGroups |-> groupByCompliance(sortedRemediations),
         effortEstimate |-> estimateEffort(sortedRemediations),
         summary |-> [critical |-> CountSeverity(sortedRemediations, "critical"),
                      high |-> CountSeverity(sortedRemediations, "high"),
                      medium |-> CountSeverity(sortedRemediations, "medium")]]

-----------------------------------------------------------------------------
(* The CLI `run` command *)

\* InfrastructureScanner.scan: ports 22, 80 and 443 are open, so the assets are
\* ssh, http and https and the vulnerabilities follow from them
scan ==
    ScanResult(
        << Vulnerability("OpenSSH User Enumeration", "medium", "CVE-2020-15778", "asset-1"),
           Vulnerability("Missing Security Headers", "medium", NULL, "asset-2"),
           Vulnerability("Missing Security Headers", "medium", NULL, "asset-3") >>)

\* runAttacks run alone: one result per catalog vector
runAttacks(draws) ==
    AttackResults([i \in DOMAIN attackVectors |->
                      executeAttack("A", i, filterRelevantAttacks(attackVectors)[i], draws[i])])

\* correlate run alone
correlate(scanResults, attackResults) ==
    LET signals == collectSignals(scanResults, attackResults)
    IN  correlationResult(signals, applyCorrelationRules(enrichWithThreatIntel(signals)))

\* learn run alone: the loop of processAttackResult, then updateModelWeights
RECURSIVE learnLoop(_, _, _, _, _)
learnLoop(weights, history, results, correlation, records) ==
    IF results = <<>>
    THEN [weights |-> updateModelWeights(weights, records), records |-> records]
    ELSE learnLoop(setLastSuccess(weights, Head(results)), history, Tail(results),
                   correlation,
                   Append(records, LearningRecord(Head(results), correlation, history)))

\* the order of the awaited calls in the action
stageOrder == <<"scan", "attack", "correlate", "remediate", "tickets", "learn">>

\* the order with attack and correlate exchanged
nextStageSwapped(stage, skipTickets) ==
    CASE stage = "scan"      -> "correlate"
      [] stage = "correlate" -> "attack"
      [] stage = "attack"    -> "remediate"
      [] stage = "remediate" -> IF skipTickets THEN "learn" ELSE "tickets"
      [] stage = "tickets"   -> "learn"
      [] stage = "learn"     -> "summary"

\* the call that follows the return of a stage
nextStage(stage, skipTickets) ==
    CASE stage = "scan"      -> "attack"
      [] stage = "attack"    -> "correlate"
      [] stage = "correlate" -> "remediate"
      [] stage = "remediate" -> IF skipTickets THEN "learn" ELSE "tickets"
      [] stage = "tickets"   -> "learn"
      [] stage = "learn"     -> "summary"

\* the stage outputs among the arguments of each call
stageArguments(stage) ==
    CASE stage = "scan"      -> {}
      [] stage = "attack"    -> {"scan"}
      [] stage = "correlate" -> {"scan", "attack"}
      [] stage = "remediate" -> {"correlate", "scan"}
      [] stage = "tickets"   -> {"remediate", "scan", "correlate"}
      [] stage = "learn"     -> {"attack", "scan", "correlate"}

NoAttackResults == AttackResults(<<>>)
NoCorrelationResult == correlationResult(<<>>, <<>>)

PipeOnly == UNCHANGED <<calls, processed, prevEngine, runs, fnVars>>

\* history files found by a run: those of the learning model, and one with
\* repeated failures of a vector
PipelineFiles ==
    PriorFiles \cup {FileOf(SeqOfN(FailureRecord(attackVectors[1]), 5))}

\* the process has started; the history file is what earlier processes left
InitPipeline ==
    /\ historyFile \in PipelineFiles
    /\ modelWeights = initializeModelWeights
    /\ learningHistory = <<>>
    /\ calls = [c \in Callers |-> IdleCall]
    /\ processed = 0
    /\ lastSave = "none"
    /\ prevEngine = NoEngine
    /\ AttackIdle
    /\ arg = <<>> /\ ret = <<>> /\ frame = NoFrame
    /\ \E skipTickets \in BOOLEAN :
          pipe = [pc |-> "init", running |-> FALSE, skipTickets |-> skipTickets,
                  trace |-> <<>>, received |-> [st \in {} |-> {}],
                  initialFile |-> historyFile,
                  attackResults |-> NoAttackResults,
                  correlationResults |-> NoCorrelationResult,
                  totalRemediations |-> 0, exitCode |-> -1]

\* lines 55-61: the modules are constructed; the learning engine loads its
\* history. An exception of a constructor would reach the catch block.
RunConstruct ==
    /\ pipe.pc = "init"
    /\ modelWeights' = initializeModelWeights
    /\ learningHistory' = loadLearningHistory(historyFile)
    /\ pipe' = IF constructorThrows(historyFile)
               THEN [pipe EXCEPT !.pc = "failed", !.exitCode = 1]
               ELSE [pipe EXCEPT !.pc = "scan"]
    /\ UNCHANGED <<historyFile, lastSave, attackHistory>>
    /\ PipeOnly

\* a stage is called with its arguments and the action suspends on it
StageCall ==
    /\ pipe.pc \in {stageOrder[k] : k \in DOMAIN stageOrder}
    /\ ~pipe.running
    /\ pipe' = [pipe EXCEPT !.running = TRUE,
                            !.trace = Append(pipe.trace, <<pipe.pc, "start">>),
                            !.received = (pipe.pc :> stageArguments(pipe.pc)) @@ pipe.received]
    /\ UNCHANGED <<modelWeights, learningHistory, historyFile, lastSave, attackHistory>>
    /\ PipeOnly

\* a rejection that is ignored: the action goes on with the next stage
stageThrowsIgnored(stage) ==
    /\ pipe' = [pipe EXCEPT !.pc = nextStage(stage, pipe.skipTickets), !.running = FALSE,
                            !.trace = Append(pipe.trace, <<stage, "throw">>)]
    /\ UNCHANGED <<modelWeights, learningHistory, historyFile, lastSave, attackHistory>>

\* lines 144-147: the awaited stage rejects; the catch block prints the error and
\* the process exits with code 1
stageThrows(stage) ==
    /\ pipe' = [pipe EXCEPT !.pc = "failed", !.running = FALSE, !.exitCode = 1,
                            !.trace = Append(pipe.trace, <<stage, "throw">>)]
    /\ UNCHANGED <<modelWeights, learningHistory, historyFile, lastSave, attackHistory>>

\* any awaited stage may reject; learn is the last one, so its rejection has no
\* later stage to abort and is left out
StageThrow ==
    /\ pipe.running
    /\ pipe.pc # "learn"
    /\ stageThrows(pipe.pc)
    /\ PipeOnly

\* the awaited stage resolves: its result is bound and the next stage is due
StageReturn ==
    /\ pipe.running
    /\ LET done == [pipe EXCEPT !.pc = nextStage(pipe.pc, pipe.skipTickets),
                                !.running = FALSE,
                                !.trace = Append(pipe.trace, <<pipe.pc, "end">>)]
       IN  CASE pipe.pc = "scan" ->
                  /\ pipe' = done
                  /\ UNCHANGED <<modelWeights, learningHistory, historyFile, lastSave,
                                 attackHistory>>
             [] pipe.pc = "attack" ->
                  \E draws \in RandomDraws :
                      /\ pipe' = [done EXCEPT !.attackResults = runAttacks(draws)]
                      /\ attackHistory' = attackHistory \o runAttacks(draws).results
                      /\ UNCHANGED <<modelWeights, learningHistory, historyFile, lastSave>>
             [] pipe.pc = "correlate" ->
                  /\ pipe' = [done EXCEPT
                                !.correlationResults = correlate(scan, pipe.attackResults)]
                  /\ UNCHANGED <<modelWeights, learningHistory, historyFile, lastSave,
                                 attackHistory>>
             [] pipe.pc = "remediate" ->
                  /\ pipe' = [done EXCEPT !.totalRemediations =
                                generate(pipe.correlationResults, scan).totalRemediations]
                  /\ UNCHANGED <<modelWeights, learningHistory, historyFile, lastSave,
                                 attackHistory>>
             [] pipe.pc = "tickets" ->
                  /\ pipe' = done
                  /\ UNCHANGED <<modelWeights, learningHistory, historyFile, lastSave,
                                 attackHistory>>
             [] pipe.pc = "learn" ->
                  \E ok \in BOOLEAN :
                      LET learned == learnLoop(modelWeights, learningHistory,
                                               pipe.attackResults.results,
                                               Correlation(pipe.correlationResults.findings),
                                               <<>>)
                      IN  /\ pipe' = done
                          /\ modelWeights' = learned.weights
                          /\ learningHistory' = learningHistory \o learned.records
                          /\ historyFile' = saveLearningHistory(historyFile,
                                                learningHistory \o learned.records, ok)
                          /\ lastSave' = IF ok THEN "ok" ELSE "failed"
                          /\ UNCHANGED attackHistory
    /\ PipeOnly

\* lines 111-142: the summary is printed and the action returns
RunComplete ==
    /\ pipe.pc = "summary"
    /\ pipe' = [pipe EXCEPT !.pc = "done", !.exitCode = 0]
    /\ UNCHANGED <<modelWeights, learningHistory, historyFile, lastSave, attackHistory>>
    /\ PipeOnly

NextPipeline ==
    \/ RunConstruct
    \/ StageCall
    \/ StageThrow
    \/ StageReturn
    \/ RunComplete

SpecPipeline == InitPipeline /\ [][NextPipeline]_vars

-----------------------------------------------------------------------------
(* Properties of the learning engine *)

Quiescent == \A c \in Callers : calls[c].pc \in {"idle", "done"}
Fresh == \A c \in Callers : calls[c].pc = "idle"

\* the attack results of vector v handed to caller c
ResultsFor(c, v) ==
    SelectSeq(calls[c].results, LAMBDA r : r.vectorId = v)

\* the EMA of the specification: rate' = 0.9*rate + 0.1*(1 if success else 0)
RECURSIVE EmaOver(_, _)
EmaOver(rate, observations) ==
    IF observations = <<>> THEN rate
    ELSE EmaOver((9 * rate + (IF Head(observations).success THEN RateScale ELSE 0)) \div 10,
                 Tail(observations))

\* the weight a vector has when the engine is constructed or first sees it
SeedRate(v) ==
    IF v \in DOMAIN initializeModelWeights
    THEN initializeModelWeights[v].successRate ELSE Pct(50)
SeedAttempts(v) ==
    IF v \in DOMAIN initializeModelWeights
    THEN initializeModelWeights[v].attempts ELSE 0

\* C1: after a learn() whose write succeeded, an engine constructed afterwards
\* starts with the weights (successRate, attempts, lastSuccess) and the history
\* that the previous engine had at the end of that run.
C1_LearnedStateOutlivesProcess ==
    (prevEngine.exists /\ prevEngine.saved = "ok" /\ Fresh) =>
        /\ learningHistory = prevEngine.history
        /\ modelWeights = prevEngine.weights

\* C2: under any interleaving of learn() calls on one engine no update is lost:
\* once all calls have completed, attempts of every vector is its seed value plus
\* the number of attack results for it over all calls, and successRate is the EMA
\* applied once per such result (the calls' results in one of the two orders);
\* and no step of a learn() call lowers attempts.
C2_AttemptsAndRate ==
    Quiescent =>
        \A v \in DOMAIN modelWeights :
            /\ modelWeights[v].attempts =
                   SeedAttempts(v) + Len(ResultsFor("A", v)) + Len(ResultsFor("B", v))
            /\ modelWeights[v].successRate \in
                   { EmaOver(SeedRate(v), ResultsFor("A", v) \o ResultsFor("B", v)),
                     EmaOver(SeedRate(v), ResultsFor("B", v) \o ResultsFor("A", v)) }

C2_AttemptsMonotone ==
    (prevEngine' = prevEngine) =>
        \A v \in DOMAIN modelWeights :
            /\ v \in DOMAIN modelWeights'
            /\ modelWeights'[v].attempts >= modelWeights[v].attempts

C2_NoLostUpdate == [](C2_AttemptsAndRate) /\ [][C2_AttemptsMonotone]_vars

\* two calls that overlapped (B started before A appended) and that both
\* updated the same vector have completed
C2_Witness ==
    /\ calls["A"].pc = "done" /\ calls["B"].pc = "done"
    /\ Len(calls["A"].results) = 2 /\ Len(calls["B"].results) >= 1
    /\ calls["B"].startHistory = calls["A"].startHistory
    /\ ResultsFor("A", "owasp-1") # <<>> /\ ResultsFor("B", "owasp-1") # <<>>
    /\ ResultsFor("A", "owasp-1")[1].success # ResultsFor("B", "owasp-1")[1].success

\* C3: the priorFailures every reward of a learn() call is computed from is the
\* number of failed records of the vector in the history as it stood when the
\* call started, whatever other calls append meanwhile.
C3_PriorFailuresFromSnapshot ==
    \A c \in Callers :
        \A i \in DOMAIN calls[c].seenFailures :
            calls[c].seenFailures[i] =
                previousFailures(calls[c].results[i], calls[c].startHistory)

\* the records of the calls that have completed on this engine, in one of the
\* two orders of completion
DoneRecords(c) == IF calls[c].pc = "done" THEN calls[c].records ELSE <<>>

\* C6: a failed write does not make learn() throw: the call returns its summary,
\* memory keeps the run's records, and a later learn() whose write succeeds
\* leaves the full history, the failed run's records included, in the file.
C6_FailedWriteIsSwallowed ==
    /\ \A c \in Callers :
          calls[c].pc = "done" =>
              /\ calls[c].summary.returned
              /\ calls[c].summary.recordsProcessed = Len(calls[c].results)
              /\ \A i \in DOMAIN calls[c].results :
                    LET v == calls[c].results[i].vectorId
                    IN  /\ v \in DOMAIN modelWeights
                        /\ modelWeights[v].attempts
                               >= SeedAttempts(v) + Len(ResultsFor(c, v))
    /\ calls["A"].pc # "idle" =>
          learningHistory \in
              { calls["A"].startHistory \o DoneRecords("A") \o DoneRecords("B"),
                calls["A"].startHistory \o DoneRecords("B") \o DoneRecords("A") }
    /\ lastSave = "ok" => historyFile = FileOf(learningHistory)

\* A's write failed, B completed after it with a write that succeeded, and the
\* file holds A's records
C6_Witness ==
    /\ calls["A"].saved = "failed" /\ calls["B"].saved = "ok"
    /\ lastSave = "ok"
    /\ calls["A"].records # <<>> /\ calls["B"].records # <<>>
    /\ historyFile.state = "ok"
    /\ historyFile.data =
           calls["A"].startHistory \o calls["A"].records \o calls["B"].records

\* C8: every successRate stays within [0, 1]; and the seed weight of owasp-1
\* (0.65, 20 attempts) with one success observed becomes 0.685 with 21 attempts.
C8_EmaStep ==
    /\ \A v \in DOMAIN modelWeights :
          modelWeights[v].successRate >= 0 /\ modelWeights[v].successRate <= RateScale
    /\ ( /\ Quiescent
         /\ ResultsFor("A", "owasp-1") \o ResultsFor("B", "owasp-1")
                = <<AttackResult(attackVectors[1], TRUE)>> ) =>
          /\ modelWeights["owasp-1"].successRate = 685 * (RateScale \div 1000)
          /\ modelWeights["owasp-1"].attempts = 21

C8_Witness ==
    /\ Quiescent
    /\ ResultsFor("A", "owasp-1") \o ResultsFor("B", "owasp-1")
           = <<AttackResult(attackVectors[1], TRUE)>>
    /\ modelWeights["owasp-1"].successRate = 685 * (RateScale \div 1000)

-----------------------------------------------------------------------------
(* calculateReward evaluated on its own *)

SuccessRecord(vector) ==
    [vectorId |-> vector.id, vectorName |-> vector.name, success |-> TRUE,
     severity |-> vector.severity, reward |-> 10]

AllVectors == {attackVectors[i] : i \in DOMAIN attackVectors} \cup {CustomVector}

\* histories with n failures of the vector among other records
RewardHistories(vector) ==
    { <<SuccessRecord(vector)>> \o SeqOfN(FailureRecord(vector), n)
          \o <<FailureRecord(attackVectors[2]), FailureRecord(attackVectors[5])>> :
      n \in 0..MaxPrior }

RewardCorrelations(vector) ==
    { NoCorrelation,
      Correlation(<<>>),
      Correlation(<< [name |-> NULL, severity |-> "critical"],
                     [name |-> "Single Finding", severity |-> "high"] >>),
      Correlation(<< [name |-> "Missing Security Headers", severity |-> "medium"],
                     [name |-> vector.name, severity |-> vector.severity] >>) }

InitReward ==
    /\ LearnIdle
    /\ AttackIdle
    /\ ret = <<>>
    /\ frame = NoFrame
    /\ pipe = NoRun
    /\ \E vector \in AllVectors, success \in BOOLEAN :
          \E corr \in RewardCorrelations(vector), history \in RewardHistories(vector) :
              arg = [attackResult |-> AttackResult(vector, success),
                     correlationResults |-> corr, history |-> history]

CallCalculateReward ==
    /\ ret = <<>>
    /\ ret' = <<calculateReward(arg.attackResult, arg.correlationResults, arg.history)>>
    /\ UNCHANGED <<arg, frame, learnVars, attackVars, pipe>>

NextReward == CallCalculateReward

SpecReward == InitReward /\ [][NextReward]_vars

\* the reward of the specification, in tenths
RewardFormula(success, critical, namedFinding, priorFailures) ==
    LET raw == (IF success THEN 10 ELSE -2)
               + (IF critical /\ success THEN 5 ELSE 0)
               + (IF namedFinding THEN 3 ELSE 0)
               - (IF priorFailures > 3 THEN priorFailures - 3 ELSE 0)
    IN  IF raw < -10 THEN -10 ELSE IF raw > 15 THEN 15 ELSE raw

ArgPriorFailures ==
    Len(SelectSeq(arg.history,
                  LAMBDA h : h.vectorId = arg.attackResult.vectorId /\ h.success = FALSE))

ArgNamedFinding ==
    /\ arg.correlationResults.defined
    /\ \E f \in {arg.correlationResults.findings[i] :
                    i \in DOMAIN arg.correlationResults.findings} :
          f.name = arg.attackResult.vectorName

\* C9: the reward is clamp(base + critical-success bonus + same-name-finding
\* bonus - repeated-failure penalty, -1.0, 1.5), so it lies in [-1.0, 1.5]; a
\* critical success with a same-named finding and no prior failure gives 1.5.
C9_RewardFormula ==
    ret # <<>> =>
        /\ ret[1] = RewardFormula(arg.attackResult.success,
                                  arg.attackResult.severity = "critical",
                                  ArgNamedFinding, ArgPriorFailures)
        /\ ret[1] >= -10 /\ ret[1] <= 15
        /\ ( /\ arg.attackResult.success
             /\ arg.attackResult.severity = "critical"
             /\ ArgNamedFinding
             /\ ArgPriorFailures = 0 ) => ret[1] = 15

\* scenario 2 has been computed, and the sum before the clamp was 1.8
C9_Witness ==
    /\ ret = <<15>>
    /\ arg.attackResult = AttackResult(attackVectors[1], TRUE)
    /\ ArgNamedFinding
    /\ ArgPriorFailures = 0

-----------------------------------------------------------------------------
(* Properties of the attack history *)

Occurrences(seq, x) == Cardinality({i \in DOMAIN seq : seq[i] = x})

\* C7: under any interleaving of runAttacks calls on one simulator the attack
\* history only grows at its end, and once all calls have completed it holds
\* every result returned by any call exactly once and nothing else.
C7_AllReturnedOnce ==
    (\A c \in Callers : runs[c].pc \in {"idle", "done"}) =>
        /\ \A c \in Callers : \A i \in DOMAIN runs[c].results :
              Occurrences(attackHistory, runs[c].results[i]) = 1
        /\ Len(attackHistory) = Len(runs["A"].results) + Len(runs["B"].results)

C7_AppendOnly ==
    /\ Len(attackHistory') >= Len(attackHistory)
    /\ SubSeq(attackHistory', 1, Len(attackHistory)) = attackHistory

C7_HistoryAppendOnly == [](C7_AllReturnedOnce) /\ [][C7_AppendOnly]_vars

\* two calls whose vector executions alternated have both completed
C7_Witness ==
    /\ runs["A"].pc = "done" /\ runs["B"].pc = "done"
    /\ Len(attackHistory) = 2 * Len(attackVectors)
    /\ attackHistory[1].id = <<"A", 1>> /\ attackHistory[2].id = <<"B", 1>>
    /\ attackHistory[3].id = <<"A", 2>> /\ attackHistory[4].id = <<"B", 2>>
    /\ attackHistory[4].success # attackHistory[3].success

-----------------------------------------------------------------------------
(* Properties of rule matching *)

Rules == {initializeCorrelationRules[k] : k \in DOMAIN initializeCorrelationRules}
EnrichedSignals == {frame.enrichedSignals[i] : i \in DOMAIN frame.enrichedSignals}
Events == {frame.correlatedEvents[i] : i \in DOMAIN frame.correlatedEvents}

\* the signal's name contains one of the rule's substrings
Matches(signal, rule) ==
    \E k \in DOMAIN rule.pattern : Includes(signal.name, rule.pattern[k])

MatchedIds(rule) == {signal.id : signal \in {x \in EnrichedSignals : Matches(x, rule)}}

EventsOfRule(rule) ==
    {i \in DOMAIN frame.correlatedEvents : frame.correlatedEvents[i].ruleId = rule.id}

SingletonsOf(signal) ==
    {i \in DOMAIN frame.correlatedEvents :
        /\ frame.correlatedEvents[i].ruleName = "Single Finding"
        /\ frame.correlatedEvents[i].ruleId = NULL
        /\ frame.correlatedEvents[i].signals = <<signal.id>>
        /\ frame.correlatedEvents[i].severity = signal.severity}

\* a rule has an event iff at least 2 signals match it, and then exactly one,
\* with the rule's severity and the ids of all the signals it matches
RuleEventsExact ==
    \A rule \in Rules :
        IF Cardinality(MatchedIds(rule)) >= 2
        THEN /\ Cardinality(EventsOfRule(rule)) = 1
             /\ \A i \in EventsOfRule(rule) :
                   LET event == frame.correlatedEvents[i]
                   IN  /\ event.severity = rule.severity
                       /\ {event.signals[j] : j \in DOMAIN event.signals} = MatchedIds(rule)
                       /\ Len(event.signals) = Cardinality(MatchedIds(rule))
        ELSE EventsOfRule(rule) = {}

ClaimedByFiredRule(signal) ==
    \E rule \in Rules : Matches(signal, rule) /\ Cardinality(MatchedIds(rule)) >= 2

\* C10 as stated: rule events exactly as above, and the only signal matching a
\* rule becomes a singleton 'Single Finding' event with its own severity.
C10_SingleMatchBecomesSingleton ==
    frame.pc = "done" =>
        /\ RuleEventsExact
        /\ \A rule \in Rules : \A signal \in EnrichedSignals :
              (MatchedIds(rule) = {signal.id}) => Cardinality(SingletonsOf(signal)) = 1

\* C10, amended: rule events exactly as above; the only signal matching a rule
\* becomes a singleton 'Single Finding' event with its own severity unless a rule
\* that fired matches it too, and then it has no singleton event.
C10_RuleEvents ==
    frame.pc = "done" =>
        /\ RuleEventsExact
        /\ \A rule \in Rules : \A signal \in EnrichedSignals :
              (MatchedIds(rule) = {signal.id}) =>
                  Cardinality(SingletonsOf(signal))
                      = (IF ClaimedByFiredRule(signal) THEN 0 ELSE 1)

\* one rule matched by a single signal, which became a singleton, next to a
\* rule that fired on two signals
C10_Witness ==
    /\ frame.pc = "done"
    /\ \E rule \in Rules : \E signal \in EnrichedSignals :
          /\ MatchedIds(rule) = {signal.id}
          /\ ~ClaimedByFiredRule(signal)
          /\ Cardinality(SingletonsOf(signal)) = 1
    /\ \E rule \in Rules :
          /\ Cardinality(MatchedIds(rule)) = 2
          /\ Cardinality(EventsOfRule(rule)) = 1
    /\ \E rule \in Rules : \E signal \in EnrichedSignals :
          MatchedIds(rule) = {signal.id} /\ ClaimedByFiredRule(signal)

-----------------------------------------------------------------------------
(* Properties of the run pipeline *)

fiveStages == <<"scan", "attack", "correlate", "remediate", "learn">>

TraceEvents(stage, kind) == {k \in DOMAIN pipe.trace : pipe.trace[k] = <<stage, kind>>}

PipelineRuns == pipe.pc # "idle"

\* scan is called first, every other stage is called only after the stage before
\* it has returned, and no stage is called twice
StagesInOrder ==
    /\ \A j \in DOMAIN fiveStages :
          /\ Cardinality(TraceEvents(fiveStages[j], "start")) <= 1
          /\ \A k \in TraceEvents(fiveStages[j], "start") :
                IF j = 1 THEN k = 1
                ELSE \E e \in TraceEvents(fiveStages[j - 1], "end") : e < k

ReceivesPrevious(j) ==
    fiveStages[j] \in DOMAIN pipe.received
        => fiveStages[j - 1] \in pipe.received[fiveStages[j]]

\* C4 as stated: the five stages run strictly in the order scan, attack,
\* correlate, remediate, learn; each starts only after the previous one has
\* completed, receives the previous stage's output, and runs at most once.
C4_EachStageReceivesPrevious ==
    PipelineRuns =>
        /\ StagesInOrder
        /\ \A j \in 2..Len(fiveStages) : ReceivesPrevious(j)

\* C4, amended: the five stages run strictly in the order scan, attack,
\* correlate, remediate, learn; each starts only after the previous one has
\* completed and runs at most once; attack, correlate and remediate receive the
\* previous stage's output, while learn receives the outputs of attack, scan
\* and correlate and not the output of remediate.
C4_StagesInOrder ==
    PipelineRuns =>
        /\ StagesInOrder
        /\ \A j \in 2..4 : ReceivesPrevious(j)
        /\ "learn" \in DOMAIN pipe.received
              => pipe.received["learn"] = {"attack", "scan", "correlate"}

\* a run went through all five stages and returned
C4_Witness ==
    /\ PipelineRuns
    /\ pipe.pc = "done"
    /\ \A j \in DOMAIN fiveStages : TraceEvents(fiveStages[j], "end") # {}

Throws == {k \in DOMAIN pipe.trace : pipe.trace[k][2] = "throw"}

\* C5: once a stage has thrown, no later stage is executed: the throw is the last
\* thing the run does; if scan, attack, correlate or remediate threw, learn was
\* never called and the weights, the history in memory and the history file are
\* what they were when the engine was constructed.
C5_FailureAbortsRun ==
    PipelineRuns =>
        \A k \in Throws :
            /\ k = Len(pipe.trace)
            /\ pipe.pc = "failed"
            /\ pipe.trace[k][1] \in {"scan", "attack", "correlate", "remediate"} =>
                  /\ TraceEvents("learn", "start") = {}
                  /\ modelWeights = initializeModelWeights
                  /\ learningHistory = loadLearningHistory(pipe.initialFile)
                  /\ historyFile = pipe.initialFile

\* remediate threw after scan, attack and correlate had returned
C5_Witness ==
    /\ PipelineRuns
    /\ pipe.pc = "failed"
    /\ TraceEvents("remediate", "throw") # {}
    /\ TraceEvents("correlate", "end") # {}

-----------------------------------------------------------------------------
(* eliminateFalsePositives evaluated on its own *)

\* an event as applyCorrelationRules builds it, of a given severity and signal list
CorrelatedEvent(severity, signals) ==
    [name |-> NULL, data |-> NoData, ruleId |-> NULL, ruleName |-> "Single Finding",
     severity |-> severity, signals |-> signals, killChainPhase |-> "Reconnaissance"]

Severities == {"critical", "high", "medium", "low"}

EventPool ==
    { CorrelatedEvent(severity, signals) :
        severity \in Severities, signals \in {<<>>, <<1>>, <<1, 2>>} }

InitFilter ==
    /\ LearnIdle
    /\ AttackIdle
    /\ ret = <<>>
    /\ frame = NoFrame
    /\ pipe = NoRun
    /\ \E events \in SeqsUpTo(EventPool, MaxEvents) : arg = [events |-> events]

CallEliminateFalsePositives ==
    /\ ret = <<>>
    /\ ret' = <<eliminateFalsePositives(arg.events)>>
    /\ UNCHANGED <<arg, frame, learnVars, attackVars, pipe>>

NextFilter == CallEliminateFalsePositives

SpecFilter == InitFilter /\ [][NextFilter]_vars

\* the events the filter is said to keep
SaidToBeKept(event) ==
    \/ event.severity \in {"critical", "high"}
    \/ event.severity = "medium" /\ Len(event.signals) > 1

\* C11: false-positive elimination keeps exactly the events that are critical
\* or high, or medium with more than one signal, in their order; its output
\* never holds a low event, a medium event with one signal is removed and the
\* same event with two signals is kept.
C11_FilterKeepsExactly ==
    ret # <<>> =>
        /\ ret[1] = SelectSeq(arg.events, SaidToBeKept)
        /\ \A i \in DOMAIN ret[1] : ret[1][i].severity # "low"
        /\ \A i \in DOMAIN arg.events :
              /\ arg.events[i] = CorrelatedEvent("medium", <<1>>)
                    => \A k \in DOMAIN ret[1] : ret[1][k] # arg.events[i]
              /\ arg.events[i] = CorrelatedEvent("medium", <<1, 2>>)
                    => \E k \in DOMAIN ret[1] : ret[1][k] = arg.events[i]

\* the filter was given the one-signal and the two-signal medium event and
\* returned only the second
C11_Witness ==
    /\ ret # <<>>
    /\ arg.events = <<CorrelatedEvent("medium", <<1>>), CorrelatedEvent("medium", <<1, 2>>)>>
    /\ ret[1] = <<CorrelatedEvent("medium", <<1, 2>>)>>

\* the findings of correlate() are the filtered events of applyCorrelationRules
CorrelateFindingsFiltered ==
    frame.pc = "done" =>
        /\ frame.result[1].findings = SelectSeq(frame.correlatedEvents, SaidToBeKept)
        /\ \A i \in DOMAIN frame.result[1].findings :
              frame.result[1].findings[i].severity # "low"

-----------------------------------------------------------------------------
(* Risk score *)

\* number of events of a severity among the events before the filter
PreFilterCount(severity) ==
    Cardinality({i \in DOMAIN frame.correlatedEvents :
                    frame.correlatedEvents[i].severity = severity})

WeightedCount ==
    25 * PreFilterCount("critical") + 10 * PreFilterCount("high") + 5 * PreFilterCount("medium")

\* C12: riskScore is min(100, 25*critical + 10*high + 5*medium) counted over
\* the events before false-positive elimination, hence within [0, 100].
C12_RiskScore ==
    frame.pc = "done" =>
        /\ frame.result[1].severityScores.riskScore
              = (IF WeightedCount > 100 THEN 100 ELSE WeightedCount)
        /\ frame.result[1].severityScores.riskScore \in 0..100

\* correlate() returned a non-zero risk score with an empty findings list
C12_Witness ==
    /\ frame.pc = "done"
    /\ frame.result[1].severityScores.riskScore > 0
    /\ frame.result[1].findings = <<>>

\* correlate() returned a risk score that the cap cut down
RiskScoreCapped ==
    /\ frame.pc = "done"
    /\ WeightedCount > 100
    /\ frame.result[1].severityScores.riskScore = 100

-----------------------------------------------------------------------------
(* Evidence and error of attack results *)

\* every result the simulator has produced so far
ProducedResults ==
    {attackHistory[i] : i \in DOMAIN attackHistory}
        \cup UNION {{runs[c].results[i] : i \in DOMAIN runs[c].results} : c \in Callers}

\* C13: in every AttackResult exactly one of evidence and error is non-null:
\* evidence iff success is true, error iff success is false.
C13_EvidenceXorError ==
    \A r \in ProducedResults :
        /\ (r.evidence # NULL) <=> r.success
        /\ (r.error # NULL) <=> ~r.success
        /\ (r.evidence # NULL) # (r.error # NULL)

\* a successful and a blocked attack are in the history, one of them with the
\* fallback text of a vector whose name is no template key
C13_Witness ==
    /\ \E r \in ProducedResults : r.success /\ r.evidence = "Exploitation successful"
    /\ \E r \in ProducedResults : ~r.success /\ r.error = generateError(attackVectors[1])

-----------------------------------------------------------------------------
(* runAttacks evaluated on its own, with its arguments *)

\* getBaseSuccessRate, in percent: the rate of the vector's name, or 0.4
getBaseSuccessRate(vector) ==
    CASE vector.name = "SQL Injection"         -> 65
      [] vector.name = "Cross-Site Scripting"  -> 55
      [] vector.name = "Broken Authentication" -> 45
      [] vector.name = "IDOR"                  -> 40
      [] vector.name = "SSH Brute Force"       -> 35
      [] vector.name = "Port Exploitation"     -> 50
      [] vector.name = "Lateral Movement"      -> 30
      [] vector.name = "Privilege Escalation"  -> 25
      [] OTHER                                 -> 40

\* the second argument of runAttacks: null, a weights object, a legacy array
NoHistory == [kind |-> "null", weights |-> << >>, records |-> <<>>]
WeightsObject(weights) == [kind |-> "object", weights |-> weights, records |-> <<>>]
LegacyArray(records) == [kind |-> "array", weights |-> << >>, records |-> records]

\* a rate as the fraction num / den
Rate(num, den) == [num |-> num, den |-> den]

\* adjustForLearning: the base rate blended with the learned or historical rate
\* by learningWeight = min(0.1 * attempts, 0.5), here in tenths
adjustForLearning(vector, history, baseRate) ==
    IF history.kind = "object"
    THEN IF vector.id \in DOMAIN history.weights
         THEN LET weight == history.weights[vector.id]
                  learningWeight == Min(weight.attempts, 5)
              IN  Rate(baseRate * (RateScale \div 100) * (10 - learningWeight)
                          + weight.successRate * learningWeight,
                       RateScale * 10)
         ELSE Rate(baseRate, 100)
    ELSE IF history.kind = "array"
    THEN LET previousAttempts ==
                 SelectSeq(history.records, LAMBDA h : h.vectorId = vector.id)
             successCount == Len(SelectSeq(previousAttempts, LAMBDA a : a.success))
             learningWeight == Min(Len(previousAttempts), 5)
         IN  IF Len(previousAttempts) = 0 THEN Rate(baseRate, 100)
             ELSE Rate(baseRate * (10 - learningWeight) * Len(previousAttempts)
                          + 100 * successCount * learningWeight,
                       1000 * Len(previousAttempts))
    ELSE Rate(baseRate, 100)

\* executeAttack lines 131-137: `Math.random() < rate` with Math.random() in [0, 1)
successRateOf(vector, history) ==
    IF history.kind # "null"
    THEN adjustForLearning(vector, history, getBaseSuccessRate(vector))
    ELSE Rate(getBaseSuccessRate(vector), 100)

randomBelow(rate, draw) ==
    IF rate.num <= 0 THEN FALSE
    ELSE IF rate.num >= rate.den THEN TRUE
    ELSE draw

findRelatedVulnerabilities(vector, vulnerabilities) ==
    SubSeq(vulnerabilities, 1, Min(2, Len(vulnerabilities)))

\* runAttacks with its arguments: the value it returns
runAttacksOn(scanResults, history, draws) ==
    LET vulnerabilities ==
            IF scanResults.hasVulnerabilities THEN scanResults.vulnerabilities ELSE <<>>
        relevantVectors == filterRelevantAttacks(attackVectors)
        results ==
            [i \in DOMAIN relevantVectors |->
                [result |-> executeAttack("A", i, relevantVectors[i],
                                randomBelow(successRateOf(relevantVectors[i], history),
                                            draws[i])),
                 targetVulnerabilities |->
                     findRelatedVulnerabilities(relevantVectors[i], vulnerabilities)]]
    IN  [totalAttacks |-> Len(results),
         successfulAttacks |-> Len(SelectSeq(results, LAMBDA r : r.result.success)),
         failedAttacks |-> Len(SelectSeq(results, LAMBDA r : ~r.result.success)),
         results |-> results]

\* a scan result without a vulnerabilities array
ScanWithoutVulnerabilities ==
    [ScanResult(<<>>) EXCEPT !.hasVulnerabilities = FALSE,
                             !.vulnerabilities = UndefinedVulnerabilities]

ScanInputs ==
    { ScanWithoutVulnerabilities, ScanResult(<<>>), scan,
      ScanResult(<<Vulnerability("MySQL Remote Root Access", "high", NULL, "asset-3")>>) }

\* weights after learning: a rate of 1.0, a rate of 0.0, other seeds untouched
LearnedWeights ==
    [initializeModelWeights EXCEPT
        !["owasp-1"] = [@ EXCEPT !.successRate = RateScale, !.attempts = 21],
        !["owasp-2"] = [@ EXCEPT !.successRate = 0, !.attempts = 19]]

HistoryInputs ==
    { NoHistory,
      WeightsObject(initializeModelWeights),
      WeightsObject(LearnedWeights),
      WeightsObject([id \in {"owasp-1"} |-> initializeModelWeights[id]]),
      LegacyArray(<<>>),
      LegacyArray(<<FailureRecord(attackVectors[1]), SuccessRecord(attackVectors[2])>>) }

InitRunAttacks ==
    /\ LearnIdle
    /\ AttackIdle
    /\ ret = <<>>
    /\ frame = NoFrame
    /\ pipe = NoRun
    /\ \E scanResults \in ScanInputs, history \in HistoryInputs, draws \in RandomDraws :
          arg = [scanResults |-> scanResults, learningHistory |-> history,
                 draws |-> draws]

CallRunAttacks ==
    /\ ret = <<>>
    /\ ret' = <<runAttacksOn(arg.scanResults, arg.learningHistory, arg.draws)>>
    /\ UNCHANGED <<arg, frame, learnVars, attackVars, pipe>>

NextRunAttacks == CallRunAttacks

SpecRunAttacks == InitRunAttacks /\ [][NextRunAttacks]_vars

-----------------------------------------------------------------------------
(* Two calls of correlate() on one SignalCorrelator, with the same arguments *)

InitCorrelateTwice ==
    /\ LearnIdle
    /\ AttackIdle
    /\ ret = <<>>
    /\ pipe = NoRun
    /\ frame = [c \in Callers |-> NoFrame]
    /\ \E vulns \in SeqsUpTo(VulnPool, MaxVulns), attacks \in AttackInputs :
          arg = [scanResults |-> ScanResult(vulns), attackResults |-> attacks]

\* a call is made: it collects the signals and suspends in enrichWithThreatIntel
CorrelateTwiceStart(c) ==
    /\ frame[c].pc = "idle"
    /\ c = "B" => frame["A"].pc # "idle"       \* callers are named in call order
    /\ frame' = [frame EXCEPT ![c] =
                    [@ EXCEPT !.pc = "enrich",
                              !.signals = collectSignals(arg.scanResults, arg.attackResults)]]
    /\ UNCHANGED arg
    /\ CorrelateOnly

\* the enrichment delay of a call elapses; it suspends in applyCorrelationRules
CorrelateTwiceEnriched(c) ==
    /\ frame[c].pc = "enrich"
    /\ frame' = [frame EXCEPT ![c] =
                    [@ EXCEPT !.pc = "rules",
                              !.enrichedSignals = enrichWithThreatIntel(frame[c].signals)]]
    /\ UNCHANGED arg
    /\ CorrelateOnly

\* a correlator whose set of claimed signal ids is kept on the instance, so that
\* a call starts from the ids the other call has claimed
CorrelateTwiceFinishSharedClaims(c) ==
    /\ frame[c].pc = "rules"
    /\ LET other == CHOOSE o \in Callers : o # c
           claimed == UNION {{frame[other].correlatedEvents[i].signals[k] :
                                k \in DOMAIN frame[other].correlatedEvents[i].signals} :
                             i \in DOMAIN frame[other].correlatedEvents}
           ruled == applyRules(initializeCorrelationRules, frame[c].enrichedSignals,
                               <<>>, claimed)
           uncorrelatedSignals ==
               SelectSeq(frame[c].enrichedSignals, LAMBDA s : s.id \notin ruled.matchedPatterns)
           correlatedEvents ==
               ruled.events \o
               [i \in DOMAIN uncorrelatedSignals |->
                   CorrelatedEvent(uncorrelatedSignals[i].severity,
                                   <<uncorrelatedSignals[i].id>>)]
       IN  frame' = [frame EXCEPT ![c] =
                        [@ EXCEPT !.pc = "done",
                                  !.correlatedEvents = correlatedEvents,
                                  !.result = <<correlationResult(frame[c].signals,
                                                                 correlatedEvents)>>]]
    /\ UNCHANGED arg
    /\ CorrelateOnly

\* the rule delay of a call elapses; it scores, filters, chains and returns
CorrelateTwiceFinish(c) ==
    /\ frame[c].pc = "rules"
    /\ LET correlatedEvents == applyCorrelationRules(frame[c].enrichedSignals)
       IN  frame' = [frame EXCEPT ![c] =
                        [@ EXCEPT !.pc = "done",
                                  !.correlatedEvents = correlatedEvents,
                                  !.result = <<correlationResult(frame[c].signals,
                                                                 correlatedEvents)>>]]
    /\ UNCHANGED arg
    /\ CorrelateOnly

NextCorrelateTwice ==
    \/ \E c \in Callers : CorrelateTwiceStart(c)
    \/ \E c \in Callers : CorrelateTwiceEnriched(c)
    \/ \E c \in Callers : CorrelateTwiceFinish(c)

SpecCorrelateTwice == InitCorrelateTwice /\ [][NextCorrelateTwice]_vars

BothReturned == \A c \in Callers : frame[c].pc = "done"

-----------------------------------------------------------------------------
(* Threat-intel enrichment *)

\* the CVEs the feed rates critical
FeedCritical == {"CVE-2021-44228", "CVE-2022-22965"}

SeverityRank(severity) ==
    CASE severity = "critical" -> 3
      [] severity = "high"     -> 2
      [] severity = "medium"   -> 1
      [] OTHER                 -> 0

Enriched == frame.pc \in {"rules", "done"}

\* C16: enrichment sets a signal's severity to critical iff its CVE is in the
\* feed with severity critical; every other signal keeps its severity, so no
\* severity is lowered.
C16_EscalationOnlyOnCritical ==
    Enriched =>
        /\ Len(frame.enrichedSignals) = Len(frame.signals)
        /\ \A i \in DOMAIN frame.signals :
              /\ frame.signals[i].cve \in FeedCritical
                    => frame.enrichedSignals[i].severity = "critical"
              /\ frame.signals[i].cve \notin FeedCritical
                    => frame.enrichedSignals[i].severity = frame.signals[i].severity
              /\ SeverityRank(frame.enrichedSignals[i].severity)
                    >= SeverityRank(frame.signals[i].severity)

\* a medium signal with a CVE the feed rates high stays medium, and a medium
\* signal with a CVE the feed rates critical becomes critical
C16_Witness ==
    /\ Enriched
    /\ \E i \in DOMAIN frame.signals :
          /\ frame.signals[i].cve = "CVE-2020-15778"
          /\ frame.signals[i].severity = "medium"
          /\ frame.enrichedSignals[i].severity = "medium"
    /\ \E i \in DOMAIN frame.signals :
          /\ frame.signals[i].cve = "CVE-2021-44228"
          /\ frame.signals[i].severity = "medium"
          /\ frame.enrichedSignals[i].severity = "critical"

-----------------------------------------------------------------------------
(* Scan results without their arrays *)

\* extractEnvironmentFactors: the lengths read behind `?.`, 0 when undefined
extractEnvironmentFactors(scanResults) ==
    LET assets == IF scanResults.hasAssets THEN scanResults.assets ELSE <<>>
        vulns == IF scanResults.hasVulnerabilities THEN scanResults.vulnerabilities ELSE <<>>
    IN  [totalAssets |-> Len(assets),
         totalVulnerabilities |-> Len(vulns),
         criticalVulnerabilities |-> CountSeverity(vulns, "critical")]

\* learn run alone on a fresh engine: its records with their environment
\* factors, the weights and the summary it returns
learnOn(attackResults, scanResults, correlationResults) ==
    LET learned == learnLoop(initializeModelWeights, <<>>, attackResults.results,
                             Correlation(correlationResults.findings), <<>>)
    IN  [recordsProcessed |-> Len(learned.records),
         records |-> [i \in DOMAIN learned.records |->
                         [record |-> learned.records[i],
                          environmentFactors |-> extractEnvironmentFactors(scanResults)]],
         updatedWeights |-> learned.weights]

ScanShape(hasVulnerabilities, vulnerabilities, hasAssets, assets) ==
    [hasVulnerabilities |-> hasVulnerabilities,
     vulnerabilities |-> IF hasVulnerabilities THEN vulnerabilities
                         ELSE UndefinedVulnerabilities,
     hasAssets |-> hasAssets,
     assets |-> IF hasAssets THEN assets ELSE UndefinedAssets]

\* scan results with each array missing, empty or filled
ScanShapes ==
    { ScanShape(hasVulnerabilities, vulnerabilities, hasAssets, assets) :
        hasVulnerabilities \in BOOLEAN, hasAssets \in BOOLEAN,
        vulnerabilities \in
            { <<>>, scan.vulnerabilities,
              <<Vulnerability("Log4j Remote Code Execution", "critical", "CVE-2021-44228", "asset-2"),
                Vulnerability("MySQL Remote Root Access", "high", NULL, "asset-3")>> },
        assets \in {<<>>, generateAssetInventory} }

NoReturns == [runAttacks |-> <<>>, correlate |-> <<>>, generate |-> <<>>, learn |-> <<>>]

InitMissing ==
    /\ LearnIdle
    /\ AttackIdle
    /\ frame = NoFrame
    /\ pipe = NoRun
    /\ ret = NoReturns
    /\ \E scanResults \in ScanShapes, draws \in RandomDraws :
          arg = [scanResults |-> scanResults, draws |-> draws]

MissingOnly == UNCHANGED <<arg, frame, learnVars, attackVars, pipe>>

CallRunAttacksOnScan ==
    /\ ret.runAttacks = <<>>
    /\ ret' = [ret EXCEPT !.runAttacks =
                  <<runAttacksOn(arg.scanResults, WeightsObject(initializeModelWeights),
                                 arg.draws)>>]
    /\ MissingOnly

CallCorrelateOnScan ==
    /\ ret.correlate = <<>>
    /\ ret' = [ret EXCEPT !.correlate = <<correlate(arg.scanResults, runAttacks(arg.draws))>>]
    /\ MissingOnly

CallGenerateOnScan ==
    /\ ret.generate = <<>>
    /\ ret' = [ret EXCEPT !.generate =
                  <<generate(correlate(arg.scanResults, runAttacks(arg.draws)),
                             arg.scanResults)>>]
    /\ MissingOnly

CallLearnOnScan ==
    /\ ret.learn = <<>>
    /\ ret' = [ret EXCEPT !.learn =
                  <<learnOn(runAttacks(arg.draws), arg.scanResults,
                            correlate(arg.scanResults, runAttacks(arg.draws)))>>]
    /\ MissingOnly

NextMissing ==
    \/ CallRunAttacksOnScan
    \/ CallCorrelateOnScan
    \/ CallGenerateOnScan
    \/ CallLearnOnScan

SpecMissing == InitMissing /\ [][NextMissing]_vars

\* the scan result with an empty array in the place of each missing one
WithEmptyArrays(scanResults) ==
    [hasVulnerabilities |-> TRUE,
     vulnerabilities |-> IF scanResults.hasVulnerabilities
                         THEN scanResults.vulnerabilities ELSE <<>>,
     hasAssets |-> TRUE,
     assets |-> IF scanResults.hasAssets THEN scanResults.assets ELSE <<>>]

ArrayMissing == ~arg.scanResults.hasVulnerabilities \/ ~arg.scanResults.hasAssets

\* C17: runAttacks, correlate, generate and learn return for a scan result
\* whose assets or vulnerabilities array is missing what they return when that
\* array is empty, each in its normal shape.
C17_MissingArraysAreEmpty ==
    ArrayMissing =>
        LET asEmpty == WithEmptyArrays(arg.scanResults)
            attacks == runAttacks(arg.draws)
        IN  /\ ret.runAttacks # <<>> =>
                  /\ ret.runAttacks[1]
                        = runAttacksOn(asEmpty, WeightsObject(initializeModelWeights), arg.draws)
                  /\ ret.runAttacks[1].totalAttacks = Len(attackVectors)
            /\ ret.correlate # <<>> =>
                  /\ ret.correlate[1] = correlate(asEmpty, attacks)
                  /\ ~arg.scanResults.hasVulnerabilities
                        => ret.correlate[1].totalSignals = Len(attacks.results)
            /\ ret.generate # <<>> =>
                  /\ ret.generate[1] = generate(correlate(asEmpty, attacks), asEmpty)
                  /\ ret.generate[1].totalRemediations
                        = Len(correlate(asEmpty, attacks).findings)
            /\ ret.learn # <<>> =>
                  /\ ret.learn[1] = learnOn(attacks, asEmpty, correlate(asEmpty, attacks))
                  /\ ret.learn[1].recordsProcessed = Len(attacks.results)

\* all four returned for a scan result that has neither array
C17_Witness ==
    /\ ~arg.scanResults.hasVulnerabilities
    /\ ~arg.scanResults.hasAssets
    /\ ret.runAttacks # <<>>
    /\ ret.correlate # <<>>
    /\ ret.generate # <<>>
    /\ ret.learn # <<>>
    /\ ret.learn[1].records[1].environmentFactors.totalAssets = 0

-----------------------------------------------------------------------------
(* Construction on a missing store *)

\* the seed table of the specification, by catalog position: rate in percent
\* and attempts
SeedPercents == <<65, 55, 45, 40, 35, 50, 30, 25>>
SeedCounts == <<20, 18, 15, 12, 10, 8, 5, 3>>

DefaultWeightTable ==
    /\ DOMAIN modelWeights = {attackVectors[i].id : i \in DOMAIN attackVectors}
    /\ \A i \in DOMAIN attackVectors :
          modelWeights[attackVectors[i].id]
              = [successRate |-> SeedPercents[i] * (RateScale \div 100),
                 attempts |-> SeedCounts[i], lastSuccess |-> NULL]

StoreUnreadable == pipe.initialFile.state \in {"missing", "corrupt"}

Constructed == PipelineRuns /\ pipe.pc # "init"

\* C18: when the history file is missing or cannot be read at construction,
\* construction does not fail and the engine has the default weight table, one
\* seed entry per catalog vector, and an empty history (until learn changes
\* them).
C18_MissingStoreGivesDefaults ==
    (Constructed /\ StoreUnreadable) =>
        /\ pipe.trace = <<>> => pipe.pc = "scan"
        /\ TraceEvents("learn", "end") = {} =>
              /\ DefaultWeightTable
              /\ learningHistory = <<>>

\* engines were constructed on a missing file
C18_Witness ==
    /\ Constructed
    /\ pipe.initialFile.state = "missing"
    /\ pipe.pc = "scan"
    /\ DefaultWeightTable
    /\ learningHistory = <<>>

-----------------------------------------------------------------------------
(* generate() applied to what correlate() returns *)

\* generate() is called with the result of correlate() and the scan result
GenerateAfterCorrelate ==
    /\ frame.pc = "done"
    /\ ret = <<>>
    /\ ret' = <<generate(frame.result[1], arg.scanResults)>>
    /\ UNCHANGED <<arg, frame, learnVars, attackVars, pipe>>

NextRemediate ==
    \/ CorrelateStart
    \/ CorrelateEnriched
    \/ CorrelateFinish
    \/ GenerateAfterCorrelate

SpecRemediate == InitCorrelate /\ [][NextRemediate]_vars

Generated == frame.pc = "done" /\ ret # <<>>

\* the name of a finding: its name, or the name of its rule
FindingName(finding) ==
    IF finding.name # NULL THEN finding.name ELSE finding.ruleName

\* the template keys that are a case-insensitive substring of a name
MatchingKeys(name) ==
    {k \in DOMAIN loadRemediationTemplates :
        Includes(toLowerCase(name), toLowerCase(loadRemediationTemplates[k]))}

\* the template the specification selects for a name
SelectedTemplate(name) ==
    IF MatchingKeys(name) = {} THEN "Default"
    ELSE loadRemediationTemplates[
             CHOOSE k \in MatchingKeys(name) : \A j \in MatchingKeys(name) : k <= j]

\* C19: for every finding that correlate() returns, the remediation carries the
\* template of the first key, in table order, that is a case-insensitive
\* substring of the finding's name, and the Default template only when no key
\* matches that name.
C19_TemplateByFindingName ==
    Generated =>
        \A i \in DOMAIN ret[1].remediations :
            LET remediation == ret[1].remediations[i]
                finding == frame.result[1].findings[remediation.findingId]
            IN  remediation.template = SelectedTemplate(FindingName(finding))

\* C20: for every finding of correlate() that originates from a vulnerability
\* whose asset id is the id of an asset of the scan, affectedAssets of its
\* remediation contains that asset, and contains no asset of another id.
OriginAssetIds(finding) ==
    {frame.enrichedSignals[k].assetId :
        k \in {j \in DOMAIN frame.enrichedSignals :
                  /\ \E n \in DOMAIN finding.signals : finding.signals[n] = frame.enrichedSignals[j].id
                  /\ frame.enrichedSignals[j].type = "vulnerability"}}

C20_AffectedAssetsOfOrigin ==
    Generated =>
        \A i \in DOMAIN ret[1].remediations :
            LET remediation == ret[1].remediations[i]
                finding == frame.result[1].findings[remediation.findingId]
                affected == {remediation.affectedAssets[n].id :
                                n \in DOMAIN remediation.affectedAssets}
                scanned == {arg.scanResults.assets[n].id : n \in DOMAIN arg.scanResults.assets}
            IN  /\ OriginAssetIds(finding) \cap scanned \subseteq affected
                /\ affected \subseteq OriginAssetIds(finding)

-----------------------------------------------------------------------------
(* lastSuccess *)

\* a step in which call c processes one more attack result
Processes(c) == Len(calls'[c].records) = Len(calls[c].records) + 1

HasLastSuccess(weights, v) == weights[v].lastSuccess # NULL

\* C21: the weight of a vector has a lastSuccess iff the attack result of that
\* vector that was processed last was a success: each step that processes a
\* result of a vector leaves the vector's lastSuccess non-null iff the result
\* is a success, and leaves the lastSuccess of the other vectors as it was.
C21_LastSuccessStep ==
    \A c \in Callers :
        Processes(c) =>
            LET result == calls'[c].results[Len(calls'[c].records)]
            IN  /\ result.vectorId \in DOMAIN modelWeights'
                      => (HasLastSuccess(modelWeights', result.vectorId) <=> result.success)
                /\ \A w \in (DOMAIN modelWeights \cap DOMAIN modelWeights') \ {result.vectorId} :
                      modelWeights'[w].lastSuccess = modelWeights[w].lastSuccess

C21_LastSuccessTracksLastResult == [][C21_LastSuccessStep]_vars

-----------------------------------------------------------------------------
(* Two runs, each with its own ReinforcementLearning instance, on one file *)

\* a LearningRecord with its uuid (the run and the position)
RecordWithId(record, id) ==
    [id |-> id, vectorId |-> record.vectorId, vectorName |-> record.vectorName,
     success |-> record.success, severity |-> record.severity, reward |-> record.reward]

NoInstance == [pc |-> "none", modelWeights |-> initializeModelWeights,
               learningHistory |-> <<>>, records |-> <<>>, saved |-> "none"]

\* attack results of a run
RunResults ==
    { <<AttackResult(attackVectors[1], TRUE)>>,
      <<AttackResult(attackVectors[1], FALSE), AttackResult(attackVectors[2], TRUE)>>,
      <<AttackResult(attackVectors[5], FALSE)>> }

InitTwoEngines ==
    /\ historyFile \in PriorFiles
    /\ modelWeights = initializeModelWeights
    /\ learningHistory = <<>>
    /\ calls = [c \in Callers |-> IdleCall]
    /\ processed = 0
    /\ lastSave = "none"
    /\ prevEngine = NoEngine
    /\ AttackIdle
    /\ ret = <<>>
    /\ pipe = NoRun
    /\ frame = [run \in Callers |-> NoInstance]
    /\ \E results \in [Callers -> RunResults] :
          arg = [results |-> results, initialFile |-> historyFile]

TwoEnginesOnly ==
    UNCHANGED <<modelWeights, learningHistory, calls, processed, lastSave, prevEngine,
                attackVars, arg, ret, pipe>>

\* cli line 61 of a run: new ReinforcementLearning() loads the history file
EngineConstruct(run) ==
    /\ frame[run].pc = "none"
    /\ frame' = [frame EXCEPT ![run] =
                    [NoInstance EXCEPT !.pc = "constructed",
                                       !.learningHistory = loadLearningHistory(historyFile)]]
    /\ UNCHANGED historyFile
    /\ TwoEnginesOnly

\* cli line 108 of a run: learn() on the run's own instance. The instance is
\* private to the run, so only the last synchronous stretch of learn(), which
\* pushes the records and writes the file, meets the other run.
EngineLearn(run) ==
    /\ frame[run].pc = "constructed"
    /\ \E ok \in BOOLEAN :
          LET engine == frame[run]
              learned == learnLoop(engine.modelWeights, engine.learningHistory,
                                   arg.results[run], NoCorrelation, <<>>)
              learningRecords == [i \in DOMAIN learned.records |->
                                     RecordWithId(learned.records[i], <<run, i>>)]
              newHistory == engine.learningHistory \o learningRecords
          IN  /\ frame' = [frame EXCEPT ![run] =
                              [pc |-> "done", modelWeights |-> learned.weights,
                               learningHistory |-> newHistory, records |-> learningRecords,
                               saved |-> IF ok THEN "ok" ELSE "failed"]]
              /\ historyFile' = saveLearningHistory(historyFile, newHistory, ok)
    /\ TwoEnginesOnly

NextTwoEngines ==
    \/ \E run \in Callers : EngineConstruct(run)
    \/ \E run \in Callers : EngineLearn(run)

SpecTwoEngines == InitTwoEngines /\ [][NextTwoEngines]_vars

BothWritten == \A run \in Callers : frame[run].pc = "done" /\ frame[run].saved = "ok"

\* C22: when two runs with separate engine instances, each of which loaded the
\* history file at construction, have both completed learn() with a successful
\* write, the history file holds the LearningRecords of both runs.
C22_DurableHistoryHasBothRuns ==
    BothWritten =>
        \A run \in Callers : \A i \in DOMAIN frame[run].records :
            \E k \in DOMAIN historyFile.data : historyFile.data[k] = frame[run].records[i]

\* both runs have written and the file holds the records of both: the second
\* instance was constructed after the first had written
BothRunsKept ==
    /\ BothWritten
    /\ Len(historyFile.data)
          = Len(loadLearningHistory(arg.initialFile))
            + Len(frame["A"].records) + Len(frame["B"].records)

-----------------------------------------------------------------------------
(* Rewards of a pipeline run *)

LearnReturned == PipelineRuns /\ TraceEvents("learn", "end") # {}

\* the records that the learn stage of the run appended to the history
RunRecords ==
    SubSeq(learningHistory, Len(loadLearningHistory(pipe.initialFile)) + 1,
           Len(learningHistory))

\* failed records of a vector in the history that the engine loaded
LoadedFailures(vectorId) ==
    Cardinality({i \in DOMAIN loadLearningHistory(pipe.initialFile) :
                    /\ loadLearningHistory(pipe.initialFile)[i].vectorId = vectorId
                    /\ ~loadLearningHistory(pipe.initialFile)[i].success})

\* C23: in a pipeline run no finding handed to learn() has a name equal to an
\* attack vector's name, so no reward holds the +0.3 correlation bonus: every
\* reward of the run is clamp(base + critical-success bonus - repeated-failure
\* penalty, -1.0, 1.5).
C23_NoCorrelationBonus ==
    LearnReturned =>
        /\ \A i \in DOMAIN pipe.correlationResults.findings :
              \A k \in DOMAIN attackVectors :
                  pipe.correlationResults.findings[i].name # attackVectors[k].name
        /\ Len(RunRecords) = Len(pipe.attackResults.results)
        /\ \A i \in DOMAIN RunRecords :
              RunRecords[i].reward
                  = RewardFormula(RunRecords[i].success,
                                  RunRecords[i].severity = "critical",
                                  FALSE,
                                  LoadedFailures(RunRecords[i].vectorId))

\* learn() returned in a run whose findings include the rule event of the XSS
\* attack, and the successful XSS attack was rewarded 1.0, not 1.3
C23_Witness ==
    /\ LearnReturned
    /\ \E i \in DOMAIN pipe.correlationResults.findings :
          pipe.correlationResults.findings[i].ruleId = "rule-2"
    /\ \E i \in DOMAIN RunRecords :
          /\ RunRecords[i].vectorId = "owasp-2"
          /\ RunRecords[i].success
          /\ RunRecords[i].reward = 10
    /\ \E i \in DOMAIN RunRecords :
          /\ RunRecords[i].vectorId = "owasp-1"
          /\ LoadedFailures("owasp-1") = 5
          /\ RunRecords[i].reward = IF RunRecords[i].success THEN 13 ELSE -4

-----------------------------------------------------------------------------
(* Findings, events and chains of correlate() *)

Findings == frame.result[1].findings

\* C24: every finding returned by correlate() has severity critical or high;
\* a medium event has one signal only and does not survive the filter, so
\* summary.medium and summary.low are 0.
C24_FindingsCriticalOrHigh ==
    frame.pc = "done" =>
        /\ \A i \in DOMAIN Findings : Findings[i].severity \in {"critical", "high"}
        /\ \A i \in DOMAIN frame.correlatedEvents :
              frame.correlatedEvents[i].ruleId # NULL
                  => frame.correlatedEvents[i].severity \in {"critical", "high"}
        /\ \A i \in DOMAIN frame.correlatedEvents :
              frame.correlatedEvents[i].severity \in {"medium", "low"}
                  => Len(frame.correlatedEvents[i].signals) = 1
        /\ frame.result[1].summary.medium = 0
        /\ frame.result[1].summary.low = 0

\* correlate() returned findings after dropping a medium and a low event
C24_Witness ==
    /\ frame.pc = "done"
    /\ PreFilterCount("medium") > 0
    /\ PreFilterCount("low") > 0 \/ PreFilterCount("medium") > 1
    /\ Findings # <<>>

SingleFindings ==
    {i \in DOMAIN frame.correlatedEvents :
        frame.correlatedEvents[i].ruleName = "Single Finding"}

\* C25: after rule matching every signal id is in the signal set of an event,
\* no event has an empty signal set, and the 'Single Finding' events are
\* exactly one per signal matched by no rule that fired.
C25_EventsCoverSignals ==
    frame.pc = "done" =>
        /\ \A signal \in EnrichedSignals :
              \E i \in DOMAIN frame.correlatedEvents :
                  \E j \in DOMAIN frame.correlatedEvents[i].signals :
                      frame.correlatedEvents[i].signals[j] = signal.id
        /\ \A i \in DOMAIN frame.correlatedEvents :
              Len(frame.correlatedEvents[i].signals) >= 1
        /\ \A signal \in EnrichedSignals :
              Cardinality({i \in SingleFindings :
                              frame.correlatedEvents[i].signals = <<signal.id>>})
                  = (IF ClaimedByFiredRule(signal) THEN 0 ELSE 1)
        /\ \A i \in SingleFindings :
              \E signal \in EnrichedSignals :
                  /\ frame.correlatedEvents[i].signals = <<signal.id>>
                  /\ ~ClaimedByFiredRule(signal)

\* a rule fired on two signals, a signal matching only a rule that did not
\* fire became a 'Single Finding', and so did a signal matching no rule
C25_Witness ==
    /\ frame.pc = "done"
    /\ \E rule \in Rules : Cardinality(MatchedIds(rule)) >= 2
    /\ \E signal \in EnrichedSignals :
          /\ \E rule \in Rules : Matches(signal, rule)
          /\ ~ClaimedByFiredRule(signal)
          /\ \E i \in SingleFindings : frame.correlatedEvents[i].signals = <<signal.id>>
    /\ \E signal \in EnrichedSignals :
          /\ \A rule \in Rules : ~Matches(signal, rule)
          /\ \E i \in SingleFindings : frame.correlatedEvents[i].signals = <<signal.id>>

CriticalFindings == SelectSeq(Findings, LAMBDA e : e.severity = "critical")

\* C27: correlate() returns exactly one attack chain, of all critical findings,
\* with complexity 'High' and likelihood 'Likely', iff a critical finding
\* remains after the filter; otherwise it returns no chain.
C27_OneChainOfCriticalFindings ==
    frame.pc = "done" =>
        IF CriticalFindings # <<>>
        THEN /\ Len(frame.result[1].attackChains) = 1
             /\ frame.result[1].attackChains[1].events = CriticalFindings
             /\ frame.result[1].attackChains[1].complexity = "High"
             /\ frame.result[1].attackChains[1].likelihood = "Likely"
        ELSE frame.result[1].attackChains = <<>>

\* correlate() returned one chain of two critical findings next to a high
\* finding that is not part of it
C27_Witness ==
    /\ frame.pc = "done"
    /\ Len(CriticalFindings) >= 2
    /\ Len(Findings) > Len(CriticalFindings)
    /\ Len(frame.result[1].attackChains) = 1
    /\ Len(frame.result[1].attackChains[1].events) = Len(CriticalFindings)

\* correlate() returned high findings and no chain
NoChainWithoutCritical ==
    /\ frame.pc = "done"
    /\ Findings # <<>>
    /\ frame.result[1].attackChains = <<>>

-----------------------------------------------------------------------------
(* Convergence pattern under learn() and reset() *)

RECURSIVE SumAttempts(_, _)
SumAttempts(weights, ids) ==
    IF ids = {} THEN 0
    ELSE LET id == CHOOSE x \in ids : TRUE
         IN  weights[id].attempts + SumAttempts(weights, ids \ {id})

\* identifyPatterns, lines 210-218: the convergence pattern. avgAttempts is the
\* fraction sum / count; with no vector it is 0/0 = NaN, which is not > 10.
identifyPatterns(weights) ==
    LET sum == SumAttempts(weights, DOMAIN weights)
        count == Cardinality(DOMAIN weights)
    IN  [type |-> "convergence",
         avgAttempts |-> Rate(sum, count),
         description |-> IF count > 0 /\ sum > 10 * count
                         THEN "Model is well-trained"
                         ELSE "Model needs more data"]

\* attack results of catalog vectors: the most and the least attempted one
CatalogResults ==
    { AttackResult(attackVectors[1], TRUE),
      AttackResult(attackVectors[1], FALSE),
      AttackResult(attackVectors[8], TRUE) }

\* learn() is called with results of catalog vectors
LearnCatalogStart(c) ==
    /\ calls[c].pc = "idle"
    /\ c = "B" => calls["A"].pc # "idle"
    /\ \E results \in SeqsUpTo(CatalogResults, MaxResults) :
         /\ processed + Len(results) <= MaxTotal
         /\ processed' = processed + Len(results)
         /\ LET call == [IdleCall EXCEPT !.results = results,
                                         !.startHistory = learningHistory]
            IN  IF results = <<>>
                THEN \E ok \in BOOLEAN : LearnFinish(c, call, modelWeights, ok)
                ELSE /\ calls' = [calls EXCEPT ![c] = [call EXCEPT !.pc = "delay", !.i = 1]]
                     /\ UNCHANGED <<modelWeights, learningHistory, historyFile, lastSave>>
    /\ UNCHANGED prevEngine
    /\ LearnOnly

\* a reset that leaves the weight table empty
ResetClearsWeights ==
    /\ learningHistory' = <<>>
    /\ modelWeights' = [id \in {} |-> Weight(0, 0)]
    /\ \E ok \in BOOLEAN :
          /\ historyFile' = saveLearningHistory(historyFile, <<>>, ok)
          /\ lastSave' = IF ok THEN "ok" ELSE "failed"
    /\ UNCHANGED <<calls, processed, prevEngine>>
    /\ LearnOnly

\* reset(), lines 300-305
Reset ==
    /\ learningHistory' = <<>>
    /\ modelWeights' = initializeModelWeights
    /\ \E ok \in BOOLEAN :
          /\ historyFile' = saveLearningHistory(historyFile, <<>>, ok)
          /\ lastSave' = IF ok THEN "ok" ELSE "failed"
    /\ UNCHANGED <<calls, processed, prevEngine>>
    /\ LearnOnly

NextConverge ==
    \/ \E c \in Callers : LearnCatalogStart(c)
    \/ \E c \in Callers : LearnStep(c)
    \/ Reset

SpecConverge == InitLearn /\ [][NextConverge]_vars

\* C26: from the default weight table, after any learn() and reset() calls on
\* catalog vector ids, the mean attempts over all vectors is greater than 10
\* and the convergence pattern says 'Model is well-trained'.
C26_AlwaysWellTrained ==
    /\ DOMAIN modelWeights = DOMAIN initializeModelWeights
    /\ SumAttempts(modelWeights, DOMAIN modelWeights)
          > 10 * Cardinality(DOMAIN modelWeights)
    /\ identifyPatterns(modelWeights).description = "Model is well-trained"
    /\ identifyPatterns(modelWeights).description # "Model needs more data"

\* a learn() call has returned after a reset that came while it was suspended,
\* and the table holds more attempts than the seeds
C26_Witness ==
    /\ \E c \in Callers :
          /\ calls[c].pc = "done"
          /\ calls[c].records # <<>>
          /\ Len(learningHistory) < Len(calls[c].startHistory) + Len(calls[c].records)
    /\ SumAttempts(modelWeights, DOMAIN modelWeights)
          > SumAttempts(initializeModelWeights, DOMAIN initializeModelWeights)
    /\ identifyPatterns(modelWeights).description = "Model is well-trained"

\* the pattern of a table that learned a vector outside the catalog
CustomVectorKeepsMeanAboveTen ==
    LET weights == updateModelWeights(initializeModelWeights,
                       <<LearningRecord(AttackResult(CustomVector, TRUE), NoCorrelation, <<>>)>>)
    IN  /\ Cardinality(DOMAIN weights) = 9
        /\ identifyPatterns(weights).description = "Model is well-trained"

-----------------------------------------------------------------------------
(* RemediationGenerator.generate evaluated on its own *)

MaxFindings == 3

\* findings of every severity, as the events of the correlator are built
FindingPool == { CorrelatedEvent(severity, <<1>>) : severity \in Severities }

InitGenerate ==
    /\ LearnIdle
    /\ AttackIdle
    /\ ret = <<>>
    /\ frame = NoFrame
    /\ pipe = NoRun
    /\ \E findings \in SeqsUpTo(FindingPool, MaxFindings) :
          arg = [correlationResults |-> [findings |-> findings],
                 scanResults |-> ScanResult(<<>>)]

CallGenerate ==
    /\ ret = <<>>
    /\ ret' = <<generate(arg.correlationResults, arg.scanResults)>>
    /\ UNCHANGED <<arg, frame, learnVars, attackVars, pipe>>

NextGenerate == CallGenerate

SpecGenerate == InitGenerate /\ [][NextGenerate]_vars

Remediations == ret[1].remediations

FrameworksOf(item) ==
    {item.complianceFrameworks[k].framework : k \in DOMAIN item.complianceFrameworks}

RelevancesOf(item) ==
    {item.complianceFrameworks[k].relevance : k \in DOMAIN item.complianceFrameworks}

\* C28: a remediation item for a critical finding carries SOC2, HIPAA, PCI and
\* GDPR with relevance 'High', an item for a high finding carries the four with
\* relevance 'Medium', and an item for a medium or low finding carries none.
C28_ComplianceBySeverity ==
    ret # <<>> =>
        \A i \in DOMAIN Remediations :
            LET item == Remediations[i]
                finding == arg.correlationResults.findings[item.findingId]
            IN  /\ item.severity = finding.severity
                /\ finding.severity \in {"critical", "high"} =>
                      /\ FrameworksOf(item) = {"SOC2", "HIPAA", "PCI", "GDPR"}
                      /\ Len(item.complianceFrameworks) = 4
                      /\ RelevancesOf(item)
                            = {IF finding.severity = "critical" THEN "High" ELSE "Medium"}
                /\ finding.severity \in {"medium", "low"} =>
                      item.complianceFrameworks = <<>>

\* generate() returned items for a critical, a high and a medium finding
C28_Witness ==
    /\ ret # <<>>
    /\ \E i, j, k \in DOMAIN Remediations :
          /\ Remediations[i].severity = "critical"
          /\ RelevancesOf(Remediations[i]) = {"High"}
          /\ Remediations[j].severity = "high"
          /\ RelevancesOf(Remediations[j]) = {"Medium"}
          /\ Remediations[k].severity = "medium"
          /\ Remediations[k].complianceFrameworks = <<>>

SeverityRankOf(severity) ==
    CASE severity = "critical" -> 0
      [] severity = "high"     -> 1
      [] severity = "medium"   -> 2
      [] severity = "low"      -> 3

\* C29: the remediations returned by generate() are the per-finding items, one
\* per input finding, in non-decreasing severity rank, and items of equal
\* severity are in the order of their findings in the input.
C29_StableSortBySeverity ==
    ret # <<>> =>
        LET findings == arg.correlationResults.findings
        IN  /\ Len(Remediations) = Len(findings)
            /\ \A f \in DOMAIN findings :
                  Cardinality({i \in DOMAIN Remediations :
                                  Remediations[i].findingId = f}) = 1
            /\ \A i \in DOMAIN Remediations :
                  /\ Remediations[i].findingId \in DOMAIN findings
                  /\ Remediations[i]
                        = createRemediation(Remediations[i].findingId,
                                            findings[Remediations[i].findingId],
                                            arg.scanResults)
            /\ \A i, j \in DOMAIN Remediations :
                  i < j =>
                     /\ SeverityRankOf(Remediations[i].severity)
                           <= SeverityRankOf(Remediations[j].severity)
                     /\ Remediations[i].severity = Remediations[j].severity
                           => Remediations[i].findingId < Remediations[j].findingId

\* generate() was given high, critical, high and returned the critical item
\* first and the two high items in their input order
C29_Witness ==
    /\ ret # <<>>
    /\ Len(arg.correlationResults.findings) = 3
    /\ arg.correlationResults.findings[1].severity = "high"
    /\ arg.correlationResults.findings[2].severity = "critical"
    /\ arg.correlationResults.findings[3].severity = "high"
    /\ [i \in DOMAIN Remediations |-> Remediations[i].findingId] = <<2, 1, 3>>

-----------------------------------------------------------------------------
(* RoutingEngine.extractWithFallback *)

MaxRouting == 2

\* ProviderFactory.initializeProviders: the providers in insertion order
ProviderNames == << "langextract", "aws", "azure" >>

Names == {ProviderNames[k] : k \in DOMAIN ProviderNames}

\* config.providers: a provider has no entry, an entry, or an entry with
\* enabled: false
ProviderConfigs == [Names -> {"absent", "enabled", "disabled"}]

\* ProviderFactory.getProvider: providers[name] || null
getProvider(providers, name) ==
    IF name \in Names /\ providers[name] # "absent" THEN name ELSE NULL

\* ProviderInterface.isEnabled
isEnabled(providers, name) == providers[name] = "enabled"

\* ProviderFactory.getEnabledProviders
getEnabledProviders(providers) ==
    SelectSeq(ProviderNames,
              LAMBDA name : providers[name] # "absent" /\ isEnabled(providers, name))

\* Config.getRoutingProviders: routing[documentType] || routing.generic || [];
\* an empty list is truthy
getRoutingProviders(routing, documentType) ==
    IF documentType \in DOMAIN routing THEN routing[documentType]
    ELSE IF "generic" \in DOMAIN routing THEN routing["generic"]
    ELSE <<>>

NoSelection == [throws |-> TRUE, provider |-> NULL, fallback |-> <<>>, reason |-> NULL]

\* a selection whose fallback list is not cut behind the primary provider
selectProviderNoSlice(config, documentType) ==
    LET providerPriority == getRoutingProviders(config.routing, documentType)
        found == [k \in DOMAIN providerPriority |->
                     getProvider(config.providers, providerPriority[k])]
        availableProviders ==
            SelectSeq(found, LAMBDA p : p # NULL /\ isEnabled(config.providers, p))
        allEnabled == getEnabledProviders(config.providers)
    IN  IF availableProviders = <<>>
        THEN IF allEnabled = <<>> THEN NoSelection
             ELSE [throws |-> FALSE, provider |-> allEnabled[1],
                   fallback |-> allEnabled, reason |-> "fallback-to-any"]
        ELSE [throws |-> FALSE, provider |-> availableProviders[1],
              fallback |-> availableProviders, reason |-> "primary"]

\* selectProvider
selectProvider(config, documentType) ==
    LET providerPriority == getRoutingProviders(config.routing, documentType)
        found == [k \in DOMAIN providerPriority |->
                     getProvider(config.providers, providerPriority[k])]
        availableProviders ==
            SelectSeq(found, LAMBDA p : p # NULL /\ isEnabled(config.providers, p))
        allEnabled == getEnabledProviders(config.providers)
    IN  IF availableProviders = <<>>
        THEN IF allEnabled = <<>> THEN NoSelection
             ELSE [throws |-> FALSE, provider |-> allEnabled[1],
                   fallback |-> Tail(allEnabled), reason |-> "fallback-to-any"]
        ELSE [throws |-> FALSE, provider |-> availableProviders[1],
              fallback |-> Tail(availableProviders), reason |-> "primary"]

\* priority lists of a document type: provider names without repetition
RoutingLists ==
    {list \in SeqsUpTo(Names, MaxRouting) :
        \A i, j \in DOMAIN list : i # j => list[i] # list[j]}

\* config.routing: a list for invoices or none, a generic list or none
RoutingTables ==
    {[t \in {} |-> <<>>]}
    \cup {[t \in {"invoice"} |-> list] : list \in RoutingLists}
    \cup {[t \in {"generic"} |-> <<"aws", "langextract">>]}
    \cup {[t \in {"invoice", "generic"} |->
              IF t = "invoice" THEN list ELSE <<"aws", "langextract">>] :
          list \in RoutingLists}

DocumentTypes == {"invoice", "receipt"}

\* extractWithFallback not yet called
NoExtract == [pc |-> "idle", selection |-> NoSelection, tried |-> <<>>, i |-> 0]

Thrown(message) ==
    [kind |-> "thrown", message |-> message, provider |-> NULL, reason |-> NULL,
     originalProvider |-> NULL, fallbackUsed |-> FALSE]

\* the value returned: the result of the provider with its _routing
Returned(provider, reason, originalProvider, fallbackUsed) ==
    [kind |-> "returned", message |-> NULL, provider |-> provider, reason |-> reason,
     originalProvider |-> originalProvider, fallbackUsed |-> fallbackUsed]

\* a provider's extract() was called and has not settled, has rejected, or
\* has resolved
Call(provider, outcome) == [provider |-> provider, outcome |-> outcome]

Settle(tried, outcome) ==
    [tried EXCEPT ![Len(tried)] = Call(tried[Len(tried)].provider, outcome)]

ExtractOnly == UNCHANGED <<arg, learnVars, attackVars, pipe>>

InitExtract ==
    /\ LearnIdle
    /\ AttackIdle
    /\ ret = <<>>
    /\ pipe = NoRun
    /\ frame = NoExtract
    /\ \E providers \in ProviderConfigs, routing \in RoutingTables,
          documentType \in DocumentTypes :
          arg = [config |-> [providers |-> providers, routing |-> routing],
                 documentType |-> documentType]

\* extractWithFallback is called: selects, and calls the primary provider's
\* extract() or throws what selectProvider throws
ExtractStart ==
    /\ frame.pc = "idle"
    /\ LET selection == selectProvider(arg.config, arg.documentType)
       IN  IF selection.throws
           THEN /\ frame' = [frame EXCEPT !.pc = "done"]
                /\ ret' = <<Thrown("No providers available")>>
           ELSE /\ frame' = [pc |-> "primary", selection |-> selection,
                             tried |-> <<Call(selection.provider, "pending")>>, i |-> 0]
                /\ UNCHANGED ret
    /\ ExtractOnly

\* lines 75-96: the loop over the fallback providers from position i on
TryFallbackFrom(tried, i) ==
    IF i <= Len(frame.selection.fallback)
    THEN /\ frame' = [frame EXCEPT !.pc = "fallback", !.i = i,
                          !.tried = Append(tried, Call(frame.selection.fallback[i], "pending"))]
         /\ UNCHANGED ret
    ELSE /\ frame' = [frame EXCEPT !.pc = "done", !.tried = tried]
         /\ ret' = <<Thrown("All providers failed")>>

\* the primary provider's extract() settles
PrimarySettles ==
    /\ frame.pc = "primary"
    /\ \E ok \in BOOLEAN :
          IF ok
          THEN /\ frame' = [frame EXCEPT !.pc = "done", !.tried = Settle(frame.tried, "resolved")]
               /\ ret' = <<Returned(frame.selection.provider, frame.selection.reason,
                                    NULL, FALSE)>>
          ELSE TryFallbackFrom(Settle(frame.tried, "rejected"), 1)
    /\ ExtractOnly

\* the extract() of fallback provider i settles
FallbackSettles ==
    /\ frame.pc = "fallback"
    /\ \E ok \in BOOLEAN :
          IF ok
          THEN /\ frame' = [frame EXCEPT !.pc = "done", !.tried = Settle(frame.tried, "resolved")]
               /\ ret' = <<Returned(frame.selection.fallback[frame.i], "fallback",
                                    frame.selection.provider, TRUE)>>
          ELSE TryFallbackFrom(Settle(frame.tried, "rejected"), frame.i + 1)
    /\ ExtractOnly

NextExtract ==
    \/ ExtractStart
    \/ PrimarySettles
    \/ FallbackSettles

SpecExtract == InitExtract /\ [][NextExtract]_vars

\* the providers of the priority list that exist and are enabled, in the
\* order of the list
EnabledInPriorityOrder ==
    SelectSeq(getRoutingProviders(arg.config.routing, arg.documentType),
              LAMBDA name : arg.config.providers[name] = "enabled")

\* the enabled providers in the order the factory holds them
EnabledInFactoryOrder ==
    SelectSeq(ProviderNames, LAMBDA name : arg.config.providers[name] = "enabled")

\* the selected providers, the primary one first
SelectedProviders ==
    IF EnabledInPriorityOrder # <<>> THEN EnabledInPriorityOrder
    ELSE EnabledInFactoryOrder

Tried == frame.tried

AllProvidersFailed ==
    /\ ret # <<>>
    /\ ret[1].kind = "thrown"
    /\ ret[1].message = "All providers failed"
    /\ Len(Tried) = 3

\* a fallback was returned without a success of the primary: providers chosen
\* by the factory's order, none of them in the priority list
FallbackToAnyUsed ==
    /\ ret # <<>>
    /\ ret[1].kind = "returned"
    /\ ret[1].fallbackUsed
    /\ EnabledInPriorityOrder = <<>>
    /\ getRoutingProviders(arg.config.routing, arg.documentType) # <<>>

=============================================================================
